---- MODULE Spec2Model ----
(***************************************************************************)
(* Model of the simboba eval run executor: Boba.run / Boba._process_case   *)
(* (src/simboba/boba.py) and run_eval (src/simboba/runner.py).             *)
(*                                                                         *)
(* Conventions                                                             *)
(*   - a Python Optional[T] is a sequence of length <= 1: None is <<>>,    *)
(*     a present value v is <<v>>;                                         *)
(*   - a case id and the text of an environment variable are sequences of  *)
(*     one-character strings, so that split/strip/sorted are computed;     *)
(*   - other texts (agent output, exception message) are TLA+ strings, ""  *)
(*     being the empty (falsy) Python string;                              *)
(*   - a float quotient is kept exact as a record [num, den].              *)
(***************************************************************************)
EXTENDS Integers, Sequences, FiniteSets, TLC

(* ---------------------------- bounds ----------------------------------- *)

\* largest number of cases of a dataset
MaxCases == 3

\* longest explicit case_ids list handed to run()
MaxArgLen == 2

(* ----------------------- Optional values ------------------------------- *)

None == <<>>

Some(v) == <<v>>

IsNone(o) == Len(o) = 0

Val(o) == o[1]

(* ------------------------ texts and ids -------------------------------- *)

\* the characters of ids and of environment texts, in code-point order
CharOrder == <<" ", ",", "-", "0", "1", "2", "3", "a", "b", "c", "d", "e", "f", "g",
              "x", "z">>

CharRank(ch) == CHOOSE i \in 1..Len(CharOrder) : CharOrder[i] = ch

\* Python's str < str: lexicographic by code point
RECURSIVE StrLess(_, _)
StrLess(s, t) ==
    IF Len(t) = 0 THEN FALSE
    ELSE IF Len(s) = 0 THEN TRUE
    ELSE IF s[1] = t[1] THEN StrLess(Tail(s), Tail(t))
    ELSE CharRank(s[1]) < CharRank(t[1])

\* sorted(set_of_str): the list of the set's elements in increasing order
RECURSIVE Sorted(_)
Sorted(S) ==
    IF S = {} THEN <<>>
    ELSE LET m == CHOOSE a \in S : \A b \in S \ {a} : StrLess(a, b)
         IN  <<m>> \o Sorted(S \ {m})

\* set(list)
ToSet(l) == {l[i] : i \in 1..Len(l)}

\* str.split(","): the pieces between commas, empty pieces included
RECURSIVE SplitComma(_, _)
SplitComma(s, cur) ==
    IF Len(s) = 0 THEN <<cur>>
    ELSE IF s[1] = "," THEN <<cur>> \o SplitComma(Tail(s), <<>>)
    ELSE SplitComma(Tail(s), Append(cur, s[1]))

RECURSIVE LStrip(_)
LStrip(s) == IF Len(s) > 0 /\ s[1] = " " THEN LStrip(Tail(s)) ELSE s

RECURSIVE RStrip(_)
RStrip(s) ==
    IF Len(s) > 0 /\ s[Len(s)] = " " THEN RStrip(SubSeq(s, 1, Len(s) - 1)) ELSE s

\* str.strip()
Strip(s) == RStrip(LStrip(s))

RECURSIVE StripNonEmpty(_)
StripNonEmpty(parts) ==
    IF Len(parts) = 0 THEN <<>>
    ELSE LET t == Strip(parts[1])
         IN  (IF Len(t) > 0 THEN <<t>> ELSE <<>>) \o StripNonEmpty(Tail(parts))

\* [cid.strip() for cid in env_case_ids.split(",") if cid.strip()]
ParseEnvCaseIds(text) == StripNonEmpty(SplitComma(text, <<>>))

(* ------------------------- the dataset --------------------------------- *)

\* the ids the dataset store hands out, all different
IdLetters == <<"a", "b", "c", "d", "e", "f", "g">>

\* storage.get_dataset(name)["id"]
DatasetId == "ds-1"

\* storage.get_dataset(name)["cases"], as the list of the cases' ids
DatasetOf(n) == [i \in 1..n |-> <<IdLetters[i]>>]

\* storage.get_dataset(name)["cases"] of a dataset file in which two cases
\* carry the same id
DatasetWithRepeat == <<<<"a">>, <<"b">>, <<"a">>>>

(* ------------------ run(): case selection ------------------------------ *)

\* truthiness of os.environ.get(NAME): set and not the empty text
EnvTruthy(env) == ~IsNone(env) /\ Len(Val(env)) > 0

\* faulty variant: the environment wins over the argument
ResolveCaseIds_EnvFirst(arg, env) ==
    IF EnvTruthy(env) THEN Some(ParseEnvCaseIds(Val(env))) ELSE arg

\* boba.py 294-298: explicit param > env var > None
ResolveCaseIds(arg, env) ==
    IF IsNone(arg)
    THEN IF EnvTruthy(env) THEN Some(ParseEnvCaseIds(Val(env))) ELSE None
    ELSE arg

\* faulty variant: no case is filtered out
FilterCases_All(cs, idset) == cs

\* [c for c in cases if c.get("id") in case_id_set]
RECURSIVE FilterCases(_, _)
FilterCases(cs, idset) ==
    IF Len(cs) = 0 THEN <<>>
    ELSE (IF cs[1] \in idset THEN <<cs[1]>> ELSE <<>>) \o FilterCases(Tail(cs), idset)

\* boba.py 303: set(case_ids) - available_ids
UnknownIds(cs, ids) == ToSet(ids) \ ToSet(cs)

\* faulty variant: only the first unknown id is named
UnknownIdsMessage_First(unknown) == <<Sorted(unknown)[1]>>

\* boba.py 305-307: the ids the ValueError names, ', '.join(sorted(unknown_ids))
UnknownIdsMessage(unknown) == Sorted(unknown)

NoError == [kind |-> "", ids |-> <<>>]

\* faulty variant: an empty list filters too
HasFilter_AnyList(cids) == ~IsNone(cids)

\* boba.py 301: a list was resolved and it is not empty
HasFilter(cids) == ~IsNone(cids) /\ Len(Val(cids)) > 0

\* boba.py 282-309: the cases to run, or the ValueError raised
SelectCases(ds, arg, env) ==
    IF IsNone(ds)
    THEN [error |-> [kind |-> "dataset_not_found", ids |-> <<>>], cases |-> <<>>]
    ELSE IF Len(Val(ds)) = 0
    THEN [error |-> [kind |-> "dataset_has_no_cases", ids |-> <<>>], cases |-> <<>>]
    ELSE LET cids == ResolveCaseIds(arg, env)
         IN  IF HasFilter(cids)
             THEN IF UnknownIds(Val(ds), Val(cids)) # {}
                  THEN [error |-> [kind |-> "case_ids_not_found",
                                   ids  |-> UnknownIdsMessage(UnknownIds(Val(ds), Val(cids)))],
                        cases |-> <<>>]
                  ELSE [error |-> NoError,
                        cases |-> FilterCases(Val(ds), ToSet(Val(cids)))]
             ELSE [error |-> NoError, cases |-> Val(ds)]

(* ------------------ run(): worker count -------------------------------- *)

IsDigit(ch) == ch \in {"0", "1", "2", "3"}

DigitVal(ch) == CASE ch = "0" -> 0 [] ch = "1" -> 1 [] ch = "2" -> 2 [] ch = "3" -> 3

RECURSIVE DigitsVal(_, _)
DigitsVal(s, acc) ==
    IF Len(s) = 0 THEN acc ELSE DigitsVal(Tail(s), acc * 10 + DigitVal(s[1]))

AllDigits(s) == Len(s) > 0 /\ \A i \in 1..Len(s) : IsDigit(s[i])

\* int(text): surrounding blanks dropped, an optional minus sign, then digits;
\* None stands for the ValueError
ParseInt(text) ==
    LET s == Strip(text)
    IN  IF Len(s) > 0 /\ s[1] = "-"
        THEN IF AllDigits(Tail(s)) THEN Some(0 - DigitsVal(Tail(s), 0)) ELSE None
        ELSE IF AllDigits(s) THEN Some(DigitsVal(s, 0)) ELSE None

\* boba.py 311-318: explicit param > env var > None
ResolveMaxWorkers(arg, env) ==
    IF IsNone(arg)
    THEN IF EnvTruthy(env) THEN ParseInt(Val(env)) ELSE None
    ELSE arg

\* faulty variant: one worker already counts as parallel
UseParallel_FromOne(mw) == ~IsNone(mw) /\ Val(mw) >= 1

\* boba.py 320
UseParallel(mw) == ~IsNone(mw) /\ Val(mw) > 1

(* --------------------------- the judge --------------------------------- *)

JudgeReasoning == "Found k/n expected terms in output"

\* judge.py 59-89, create_simple_judge.judge: actual_output.lower() raises
\* when the output is None; on a text the verdict is the overlap test, whose
\* outcome for the texts at hand is overlap_ok
SimpleJudge(actual_output, overlap_ok) ==
    IF IsNone(actual_output)
    THEN [raised |-> TRUE, passed |-> FALSE, reasoning |-> ""]
    ELSE [raised |-> FALSE, passed |-> overlap_ok, reasoning |-> JudgeReasoning]

\* judge.py 72: the stop words
StopWords ==
    {"the", "a", "an", "is", "are", "should", "must", "will", "and", "or", "to", "be"}

\* str.lower() on one word: the words written with capitals, and their
\* lowercase form
Lower(w) ==
    CASE w = "The" -> "the"
      [] w = "Cat" -> "cat"
      [] w = "Passed" -> "passed"
      [] w = "TRUE" -> "true"
      [] OTHER -> w

\* judge.py 64-69: set(text.lower().split()), a text being the sequence of
\* its blank-separated words
Words(text) == {Lower(text[i]) : i \in DOMAIN text}

\* a quotient of two counts, and a >= b on such quotients; the float division
\* and comparison of judge.py 81-83 agree with the exact ones on counts
Ratio(k, n) == [num |-> k, den |-> n]

RatioGeq(a, b) == a.num * b.den >= b.num * a.den

\* faulty variant: at least half of the expected words must be found
OverlapOk_Half(expected, actual) ==
    LET expected_words == Words(expected) \ StopWords
        actual_words == Words(actual) \ StopWords
        overlap == expected_words \cap actual_words
    IN  IF expected_words = {} THEN TRUE
        ELSE RatioGeq(Ratio(Cardinality(overlap), Cardinality(expected_words)), Ratio(5, 10))

\* judge.py 61-83: the overlap test of the simple judge
OverlapOk(expected, actual) ==
    LET expected_words == Words(expected) \ StopWords
        actual_words == Words(actual) \ StopWords
        overlap == expected_words \cap actual_words
    IN  IF expected_words = {} THEN TRUE
        ELSE RatioGeq(Ratio(Cardinality(overlap), Cardinality(expected_words)), Ratio(3, 10))

\* `needle in text.lower()` for a needle that is one of the text's words
ContainsWord(text, needle) == \E i \in DOMAIN text : Lower(text[i]) = needle

\* client.generate_json answered a dict, with or without its keys
OracleAnswers(passed, has_reasoning) ==
    [kind |-> "dict", passed |-> passed, has_reasoning |-> has_reasoning, text |-> <<>>]

\* client.generate_json, or reading its answer, raised an exception whose
\* str() is text
OracleFails(text) ==
    [kind |-> "raises", passed |-> None, has_reasoning |-> FALSE, text |-> text]

\* judge.py 22-47, create_judge.judge, after the prompt is built
OracleJudge(o) ==
    IF o.kind = "dict"
    THEN [raised |-> FALSE,
          passed |-> IF IsNone(o.passed) THEN FALSE ELSE Val(o.passed),
          reasoning |-> IF o.has_reasoning THEN "reasoning of the oracle"
                        ELSE "No reasoning provided",
          detail |-> <<>>]
    ELSE [raised |-> FALSE,
          passed |-> ContainsWord(o.text, "passed") /\ ContainsWord(o.text, "true"),
          reasoning |-> "Could not parse judge response: ",
          detail |-> o.text]

\* boba.py 39-60, the judge _get_judge answers: create_judge (judge.py 9) takes
\* no `prompt` keyword, so the call in the try block raises and the except
\* branch answers the simple judge
JudgeFn(actual_output, overlap_ok) == SimpleJudge(actual_output, overlap_ok)

(* ----------------------- the case processor ---------------------------- *)

\* What the agent does when called: it returns a str, or raises an exception
\* with a message.
AgentReturnsText(t) == [raised |-> FALSE, text |-> t, response |-> FALSE, metadata |-> None]

\* boba.py 183-185: the agent returns an AgentResponse(output, metadata)
AgentReturnsResponse(t, md) == [raised |-> FALSE, text |-> t, response |-> TRUE, metadata |-> md]

AgentRaises(msg) == [raised |-> TRUE, text |-> msg, response |-> FALSE, metadata |-> None]

\* boba.py 181-194: the agent call and its try/except
CallAgent(outcome) ==
    IF outcome.raised
    THEN [output |-> None, actual_metadata |-> None, error_message |-> Some(outcome.text)]
    ELSE [output |-> Some(outcome.text),
          actual_metadata |-> IF outcome.response THEN outcome.metadata ELSE None,
          error_message |-> None]

\* boba.py 199, `if error_message:` : None and "" are both falsy
ErrorTruthy(error_message) == ~IsNone(error_message) /\ Val(error_message) # ""

\* faulty variant: the checker's verdict gates the result but is not recorded
MetadataGate_Unrecorded(checker, output_passed, checker_verdict) ==
    IF checker
    THEN [metadata_passed |-> None, passed |-> output_passed /\ checker_verdict]
    ELSE [metadata_passed |-> None, passed |-> output_passed]

\* faulty variant: the checker can rescue a failed judgement
MetadataGate_Or(checker, output_passed, checker_verdict) ==
    IF checker
    THEN [metadata_passed |-> Some(checker_verdict),
          passed |-> output_passed \/ checker_verdict]
    ELSE [metadata_passed |-> None, passed |-> output_passed]

\* boba.py 211-216 (and 120-125 in eval): the deterministic checker as a gate
MetadataGate(checker, output_passed, checker_verdict) ==
    IF checker
    THEN [metadata_passed |-> Some(checker_verdict),
          passed |-> output_passed /\ checker_verdict]
    ELSE [metadata_passed |-> None, passed |-> output_passed]

\* boba.py 225: str(output) if output else None
ActualOutput(output) ==
    IF ~IsNone(output) /\ Val(output) # "" THEN output ELSE None

\* boba.py 196-240: judging and the result record, given what CallAgent left.
\* raised: the judge's exception leaves _process_case; judge_called records
\* whether judge_fn was invoked; output_passed is the local of that name, the
\* verdict the judge returned.
JudgeAndBuild(case_id, a, checker, overlap_ok, checker_verdict) ==
    IF ErrorTruthy(a.error_message)
    THEN [raised |-> FALSE, judge_called |-> FALSE, output_passed |-> None,
          case_id |-> case_id,
          passed |-> FALSE, actual_output |-> ActualOutput(a.output),
          reasoning |-> "Error: " \o Val(a.error_message),
          error_message |-> a.error_message,
          actual_metadata |-> a.actual_metadata, metadata_passed |-> None]
    ELSE LET j == JudgeFn(a.output, overlap_ok)
             g == MetadataGate(checker, j.passed, checker_verdict)
         IN  IF j.raised
             THEN [raised |-> TRUE, judge_called |-> TRUE, output_passed |-> None,
                   case_id |-> case_id,
                   passed |-> FALSE, actual_output |-> None, reasoning |-> "",
                   error_message |-> a.error_message,
                   actual_metadata |-> a.actual_metadata, metadata_passed |-> None]
             ELSE [raised |-> FALSE, judge_called |-> TRUE,
                   output_passed |-> Some(j.passed), case_id |-> case_id,
                   passed |-> g.passed, actual_output |-> ActualOutput(a.output),
                   reasoning |-> j.reasoning,
                   error_message |-> a.error_message,
                   actual_metadata |-> a.actual_metadata,
                   metadata_passed |-> g.metadata_passed]

(* ------------------------- the run record ------------------------------ *)

\* faulty variant: a fraction instead of a percentage
Score_NoPercent(passed, total) ==
    IF total > 0 THEN [num |-> passed, den |-> total] ELSE [num |-> 0, den |-> 1]

\* boba.py 411 / runner.py 207: passed / total * 100, 0.0 without cases
Score(passed, total) ==
    IF total > 0 THEN [num |-> passed * 100, den |-> total] ELSE [num |-> 0, den |-> 1]

\* faulty variant: total is left at zero until the run is finalized
NewRun_NoTotal(dataset_id, n) ==
    [dataset_id |-> dataset_id,
     status |-> "running", total |-> 0, passed |-> 0, failed |-> 0,
     results |-> [k \in {} |-> 0], score |-> None,
     completed_at |-> None]

\* boba.py 323-333
NewRun(dataset_id, n) ==
    [dataset_id |-> dataset_id,
     status |-> "running", total |-> n, passed |-> 0, failed |-> 0,
     results |-> [k \in {} |-> 0], score |-> None,
     completed_at |-> None]

\* faulty variant: the map is replaced by the single new entry
PutResult_Replace(results, case_id, result) == [k \in {case_id} |-> result]

\* boba.py 364 / 392: run["results"][case_id] = result
PutResult(results, case_id, result) ==
    [k \in (DOMAIN results) \cup {case_id} |->
        IF k = case_id THEN result ELSE results[k]]

(* --------------------- inputs of the operations ------------------------ *)

\* storage.get_dataset(name): not found, or a dataset of 0..MaxCases cases
DatasetChoices == {None} \cup {Some(DatasetOf(n)) : n \in 0..MaxCases}

\* ids a caller may name: two ids of the dataset store and one unknown to it
ArgIds == {<<"a">>, <<"c">>, <<"z">>}

BoundedSeq(S, n) == UNION {[1..k -> S] : k \in 0..n}

\* the case_ids argument of run(): omitted, or a list
CaseIdArgs == {None} \cup {Some(l) : l \in BoundedSeq(ArgIds, MaxArgLen)}

\* BOBA_CASE_IDS: unset, "", ",", "b, a," and "z"
EnvCaseIdChoices ==
    {None, Some(<<>>), Some(<<",">>), Some(<<"b", ",", " ", "a", ",">>), Some(<<"z">>)}

\* the max_workers argument of run()
WorkerArgs == {None, Some(1), Some(2)}

\* BOBA_MAX_WORKERS: unset, "3" and "x"
EnvWorkerChoices == {None, Some(<<"3">>), Some(<<"x">>)}

\* longest BOBA_MAX_WORKERS text of the worker-count sweep
MaxEnvLen == 2

\* the characters of those texts: blank, sign, digits and a letter
WorkerEnvChars == {" ", "-", "0", "1", "2", "x"}

\* the max_workers argument in the sweep
WorkerSweepArgs == {None, Some(0 - 1), Some(0), Some(1), Some(2), Some(3)}

\* the calls of run() of the worker-count sweep: the whole one-case dataset,
\* every argument with every environment text
WorkerSweepInputs ==
    [ds : {Some(DatasetOf(1))}, cids : {None}, envc : {None},
     mw : WorkerSweepArgs,
     envw : {None} \cup {Some(t) : t \in BoundedSeq(WorkerEnvChars, MaxEnvLen)},
     chk : {FALSE}]

\* number of cases of the dataset on which the periodic save is explored
MaxFlushCases == 5

\* the call of run() on that dataset: every case, a pool of two threads
FlushInputs ==
    [ds : {Some(DatasetOf(MaxFlushCases))}, cids : {None}, envc : {None},
     mw : {Some(2)}, envw : {None}, chk : {FALSE}]

\* what the agent does in that run
FlushAgentOutcomes == {AgentReturnsText("hi"), AgentRaises("")}

\* longest expected_outcome handed to the simple judge, in words
MaxWords == 4

\* the words of those texts: a stop word, four other words, and capitals
JudgeWords == {"the", "The", "cat", "Cat", "dog", "fish", "bird"}

ExpectedTexts == BoundedSeq(JudgeWords, MaxWords)

\* the outputs the simple judge is given
ActualTexts ==
    {<<>>, <<"the">>, <<"Cat">>, <<"bird">>, <<"cat", "dog">>, <<"the", "fish">>,
     <<"dog", "dog", "The">>, <<"cat", "dog", "fish">>, <<"cat", "dog", "fish", "bird">>}

\* longest text of an oracle failure, in words
MaxFailureWords == 2

FailureWords == {"passed", "Passed", "true", "TRUE", "timeout"}

\* what the oracle call does
OracleOutcomes ==
    {OracleAnswers(p, r) : p \in {None, Some(TRUE), Some(FALSE)}, r \in BOOLEAN}
    \cup {OracleFails(t) : t \in BoundedSeq(FailureWords, MaxFailureWords)}

\* the calls of run() explored with a baseline in the store: the whole
\* dataset, sequentially and with a pool of two threads
BaselineRunInputs ==
    [ds : DatasetChoices, cids : {None}, envc : {None},
     mw : {None, Some(2)}, envw : {None}, chk : {FALSE}]

\* the calls of run() on the dataset whose id repeats, sequentially and with a
\* pool of two threads
RepeatInputs ==
    [ds : {Some(DatasetWithRepeat)}, cids : {None}, envc : {None},
     mw : {None, Some(2)}, envw : {None}, chk : {FALSE}]

\* the calls of run() in which every kind of agent answer is explored: one or
\* two cases, sequentially and with a pool of two, with and without a checker
CaseInputs ==
    [ds : {Some(DatasetOf(1)), Some(DatasetOf(2))}, cids : {None}, envc : {None},
     mw : {None, Some(2)}, envw : {None}, chk : BOOLEAN]

\* what the agent does there: a text, the empty text, an AgentResponse with or
\* without metadata, an exception with or without a message
CaseAgentOutcomes ==
    {AgentReturnsText("hi"), AgentReturnsText(""),
     AgentReturnsResponse("hi", Some("md")), AgentReturnsResponse("", None),
     AgentRaises("boom"), AgentRaises("")}

\* the calls of run() explored with failing store writes: the dataset of the
\* periodic save, sequentially and with a pool of two threads
StoreFailInputs ==
    [ds : {Some(DatasetOf(MaxFlushCases))}, cids : {None}, envc : {None},
     mw : {None, Some(2)}, envw : {None}, chk : {FALSE}]

\* The calls of run() explored: every selection input in sequential mode,
\* every case_ids argument in parallel mode, and every worker-count input and
\* checker with the whole dataset selected.
RunInputs ==
    [ds : DatasetChoices, cids : CaseIdArgs, envc : EnvCaseIdChoices,
     mw : {None}, envw : {None}, chk : {FALSE}]
    \cup
    [ds : DatasetChoices, cids : CaseIdArgs, envc : {None},
     mw : {Some(2)}, envw : {None}, chk : {FALSE}]
    \cup
    [ds : DatasetChoices, cids : {None}, envc : {None},
     mw : WorkerArgs, envw : EnvWorkerChoices, chk : BOOLEAN]

\* what the agent does in a run
RunAgentOutcomes == {AgentReturnsText("hi"), AgentRaises("boom"), AgentRaises("")}

(* ------------------------------ state ---------------------------------- *)

VARIABLES
    pc,               \* where the call is: idle, seq, par, drain, post_pool,
                      \* finalize, finalized, returned, raised
    dataset,          \* what storage.get_dataset answers
    case_ids,         \* run() parameter
    env_case_ids,     \* os.environ BOBA_CASE_IDS
    max_workers,      \* run() parameter
    env_workers,      \* os.environ BOBA_MAX_WORKERS
    metadata_checker, \* whether run() was given a metadata_checker
    cases,            \* the selected cases (their ids), in dataset order
    pool_size,        \* resolved max_workers of the thread pool, 0 if sequential
    run,              \* the in-memory run record
    store,            \* the run record as last written by storage.save_run
    passed_count,
    failed_count,
    save_counter,
    tasks,            \* per selected case: the progress of its _process_case
    error,            \* the exception that left run()
    summary,          \* the dict run() returned
    agent_calls,      \* per selected case: number of agent invocations
    judge_calls,      \* per selected case: number of judge invocations
    runner_result,    \* the RunResult run_eval returned
    eval_call,        \* eval(): its locals output_passed, metadata_passed and
                      \* the passed and reasoning it returned
    baseline,         \* what storage.get_baseline answered
    comparison,       \* what storage.compare_run_to_baseline answered
    judge_call,       \* a direct call of a judge function: arguments and result
    lock,             \* the lock of parallel mode: 0 when free, else the index
                      \* of the case whose result the main thread folds
    baseline_store,   \* the baseline the store holds for the dataset
    saves,            \* number of storage.save_run calls that returned
    completed_saves,  \* those of them that wrote status=completed
    instances         \* per Boba instance: _warned_simple_judge, and what its
                      \* calls of _get_judge did

vars == <<pc, dataset, case_ids, env_case_ids, max_workers, env_workers,
          metadata_checker, cases, pool_size, run, store, passed_count,
          failed_count, save_counter, tasks, error, summary, agent_calls,
          judge_calls, runner_result, eval_call, baseline, comparison, judge_call, lock, baseline_store, saves,
                   completed_saves, instances>>

inputs == <<dataset, case_ids, env_case_ids, max_workers, env_workers, metadata_checker>>

NoAgentResult == [output |-> None, actual_metadata |-> None, error_message |-> None]

NoResult ==
    [raised |-> FALSE, judge_called |-> FALSE, output_passed |-> None,
     case_id |-> <<>>, passed |-> FALSE,
     actual_output |-> None, reasoning |-> "", error_message |-> None,
     actual_metadata |-> None, metadata_passed |-> None]

QueuedTask == [st |-> "queued", a |-> NoAgentResult, r |-> NoResult]

\* the Boba instances of the process; run() and eval() are called on the first
Instances == {1, 2}

\* boba.py 35-37, a fresh instance; resolutions and warn_resolutions count its
\* calls of _get_judge and those with warn=True, warnings the warnings printed,
\* judge is the judge the last call returned
NewBoba ==
    [warned_simple_judge |-> FALSE, resolutions |-> 0, warn_resolutions |-> 0,
     warnings |-> 0, judge |-> "none"]

\* boba.py 35-37 and the state before run() is called
Init ==
    /\ pc = "idle"
    /\ dataset = None
    /\ case_ids = None
    /\ env_case_ids = None
    /\ max_workers = None
    /\ env_workers = None
    /\ metadata_checker = FALSE
    /\ cases = <<>>
    /\ pool_size = 0
    /\ run = NewRun("", 0)
    /\ store = None
    /\ passed_count = 0
    /\ failed_count = 0
    /\ save_counter = 0
    /\ tasks = <<>>
    /\ error = NoError
    /\ summary = None
    /\ agent_calls = <<>>
    /\ judge_calls = <<>>
    /\ runner_result = None
    /\ eval_call = None
    /\ baseline = None
    /\ comparison = None
    /\ judge_call = None
    /\ lock = 0
    /\ baseline_store = None
    /\ saves = 0
    /\ completed_saves = 0
    /\ instances = [b \in Instances |-> NewBoba]

\* most calls of _get_judge explored on one instance
MaxResolutions == 4

\* faulty variant: every call with warn=True prints the warning
GetJudge_AlwaysWarns(b, warn) ==
    [b EXCEPT !.warned_simple_judge = @ \/ warn,
              !.warnings = IF warn THEN @ + 1 ELSE @,
              !.resolutions = @ + 1,
              !.warn_resolutions = IF warn THEN @ + 1 ELSE @,
              !.judge = "simple"]

\* boba.py 39-60, _get_judge on the instance b: create_judge (judge.py 9) takes
\* no `prompt` keyword, so the call in the try block raises TypeError and the
\* except branch warns once and answers the simple judge
GetJudge(b, warn) ==
    [b EXCEPT !.warned_simple_judge = @ \/ warn,
              !.warnings = IF warn /\ ~b.warned_simple_judge THEN @ + 1 ELSE @,
              !.resolutions = @ + 1,
              !.warn_resolutions = IF warn THEN @ + 1 ELSE @,
              !.judge = "simple"]

\* boba.py 39-60: one call of _get_judge(warn) on the instance b
ResolveJudge(b, warn) ==
    /\ pc = "idle"
    /\ instances[b].resolutions < MaxResolutions
    /\ instances' = [instances EXCEPT ![b] = GetJudge(@, warn)]
    /\ UNCHANGED <<pc, inputs, cases, pool_size, run, store, passed_count, failed_count,
                   save_counter, tasks, error, summary, agent_calls, judge_calls,
                   runner_result, eval_call, baseline, comparison, judge_call, lock,
                   baseline_store, saves, completed_saves>>

\* storage.save_run(dataset_id, run): the store holds the record as handed in
SaveRun(r) == Some(r)

\* boba.py 282-343 (and 347-357 in parallel mode): load, select, resolve the
\* worker count, create and save the run record, get the judge, submit
RunStart(ds, cids, envc, mw, envw, chk) ==
    /\ pc = "idle"
    /\ dataset' = ds
    /\ case_ids' = cids
    /\ env_case_ids' = envc
    /\ max_workers' = mw
    /\ env_workers' = envw
    /\ metadata_checker' = chk
    /\ LET sel == SelectCases(ds, cids, envc)
           rmw == ResolveMaxWorkers(mw, envw)
       IN  IF sel.error # NoError
           THEN /\ pc' = "raised"
                /\ error' = sel.error
                /\ UNCHANGED <<cases, pool_size, run, store, tasks, agent_calls,
                               judge_calls, saves, instances>>
           ELSE /\ pc' = IF UseParallel(rmw) THEN "par" ELSE "seq"
                /\ pool_size' = IF UseParallel(rmw) THEN Val(rmw) ELSE 0
                /\ cases' = sel.cases
                /\ run' = NewRun(DatasetId, Len(sel.cases))
                /\ store' = SaveRun(run')
                /\ saves' = saves + 1
                /\ instances' = [instances EXCEPT ![1] = GetJudge(@, TRUE)]
                /\ tasks' = [i \in 1..Len(sel.cases) |-> QueuedTask]
                /\ agent_calls' = [i \in 1..Len(sel.cases) |-> 0]
                /\ judge_calls' = [i \in 1..Len(sel.cases) |-> 0]
                /\ error' = NoError
    /\ UNCHANGED <<passed_count, failed_count, save_counter, summary, runner_result,
                   eval_call, baseline, comparison, judge_call, lock, baseline_store,
                   completed_saves>>

\* boba.py 349
SAVE_INTERVAL == 5

\* faulty variant: the periodic save is due on every tenth fold
PeriodicSaveDue_Doubled(counter) == counter % (2 * SAVE_INTERVAL) = 0

\* boba.py 380: the periodic save is due on every SAVE_INTERVAL-th fold
PeriodicSaveDue(counter) == counter % SAVE_INTERVAL = 0

\* result_data["result"], the record kept in run["results"] (boba.py 222-239)
StoredResult(r) ==
    [case_id |-> r.case_id, passed |-> r.passed, actual_output |-> r.actual_output,
     reasoning |-> r.reasoning, error_message |-> r.error_message,
     actual_metadata |-> r.actual_metadata, metadata_passed |-> r.metadata_passed]

\* faulty variant: the failed counter is bumped for every result
FoldResult_FailedAlways(r, res, pcnt, fcnt) ==
    [r EXCEPT !.results = PutResult(@, res.case_id, StoredResult(res)),
              !.passed = IF res.passed THEN pcnt + 1 ELSE pcnt,
              !.failed = fcnt + 1]

\* faulty variant: the passed counter restarts from zero at every fold, as an
\* unguarded read of a stale counter would
FoldResult_StalePassed(r, res, pcnt, fcnt) ==
    [r EXCEPT !.results = PutResult(@, res.case_id, StoredResult(res)),
              !.passed = IF res.passed THEN 1 ELSE pcnt,
              !.failed = IF res.passed THEN fcnt ELSE fcnt + 1]

\* boba.py 364-371 / 392-399: fold one result into the run record
FoldResult(r, res, pcnt, fcnt) ==
    [r EXCEPT !.results = PutResult(@, res.case_id, StoredResult(res)),
              !.passed = IF res.passed THEN pcnt + 1 ELSE pcnt,
              !.failed = IF res.passed THEN fcnt ELSE fcnt + 1]

JudgeError == [kind |-> "judge_exception", ids |-> <<>>]

\* faulty variant: a future that ended in an exception counts as handled
AllFolded_Finished == \A i \in DOMAIN tasks : tasks[i].st \in {"folded", "failed"}

\* boba.py 359: the as_completed loop has run to its end
AllFolded == \A i \in DOMAIN tasks : tasks[i].st = "folded"

\* faulty variant: a case whose agent call raised is taken again
SeqTurn_Retry(i) ==
    /\ \/ tasks[i].st = "queued"
       \/ tasks[i].st = "agent_done" /\ ~IsNone(tasks[i].a.error_message)
    /\ \A j \in 1..(i - 1) : tasks[j].st = "folded"

\* faulty variant: the loop takes the cases one at a time in any order
SeqTurn_AnyOrder(i) ==
    /\ tasks[i].st = "queued"
    /\ \A j \in DOMAIN tasks : tasks[j].st \in {"queued", "folded"}

\* boba.py 388: `for case in cases`, case i is next once every earlier case
\* has been processed, folded and saved
SeqTurn(i) ==
    /\ tasks[i].st = "queued"
    /\ \A j \in 1..(i - 1) : tasks[j].st = "folded"

\* boba.py 388-389 with 181-194: the sequential loop reaches case i and the
\* agent is called
SeqAgent(i, outcome) ==
    /\ pc = "seq"
    /\ SeqTurn(i)
    /\ tasks' = [tasks EXCEPT ![i] = [@ EXCEPT !.st = "agent_done", !.a = CallAgent(outcome)]]
    /\ agent_calls' = [agent_calls EXCEPT ![i] = @ + 1]
    /\ UNCHANGED <<pc, inputs, cases, pool_size, run, store, passed_count, failed_count,
                   save_counter, error, summary, judge_calls, runner_result, eval_call, baseline, comparison, judge_call, lock, baseline_store, saves,
                   completed_saves, instances>>

\* boba.py 389-407 with 196-240: case i is judged, folded and saved; an
\* exception of the judge leaves run()
SeqJudgeFold(i, overlap_ok, checker_verdict) ==
    /\ pc = "seq"
    /\ tasks[i].st = "agent_done"
    /\ LET res == JudgeAndBuild(cases[i], tasks[i].a, metadata_checker,
                                overlap_ok, checker_verdict)
       IN  /\ judge_calls' = [judge_calls EXCEPT ![i] = IF res.judge_called THEN @ + 1 ELSE @]
           /\ IF res.raised
              THEN /\ pc' = "raised"
                   /\ error' = JudgeError
                   /\ tasks' = [tasks EXCEPT ![i] = [@ EXCEPT !.st = "failed", !.r = res]]
                   /\ UNCHANGED <<run, store, passed_count, failed_count, saves>>
              ELSE /\ run' = FoldResult(run, res, passed_count, failed_count)
                   /\ passed_count' = run'.passed
                   /\ failed_count' = run'.failed
                   /\ store' = SaveRun(run')
                   /\ saves' = saves + 1
                   /\ tasks' = [tasks EXCEPT ![i] = [@ EXCEPT !.st = "folded", !.r = res]]
                   /\ pc' = IF i = Len(cases) THEN "finalize" ELSE "seq"
                   /\ UNCHANGED error
    /\ UNCHANGED <<inputs, cases, pool_size, save_counter, summary, agent_calls,
                   runner_result, eval_call, baseline, comparison, judge_call, lock,
                   baseline_store, completed_saves, instances>>

\* the cases a pool thread has taken from the work queue and not finished
InFlight == {j \in DOMAIN tasks : tasks[j].st = "agent_done"}

\* boba.py 351-357 with 181-194: a pool thread runs case i up to the agent
\* call; the queue is first-in first-out and at most pool_size threads exist
WorkerAgent(i, outcome) ==
    /\ pc \in {"par", "drain"}
    /\ tasks[i].st = "queued"
    /\ Cardinality(InFlight) + Cardinality({j \in 1..(i - 1) : tasks[j].st = "queued"}) < pool_size
    /\ tasks' = [tasks EXCEPT ![i] = [@ EXCEPT !.st = "agent_done", !.a = CallAgent(outcome)]]
    /\ agent_calls' = [agent_calls EXCEPT ![i] = @ + 1]
    /\ UNCHANGED <<pc, inputs, cases, pool_size, run, store, passed_count, failed_count,
                   save_counter, error, summary, judge_calls, runner_result, eval_call, baseline, comparison, judge_call, lock, baseline_store, saves,
                   completed_saves, instances>>

\* boba.py 196-240 in a pool thread: the future of case i completes, with a
\* result or with the judge's exception
WorkerJudge(i, overlap_ok, checker_verdict) ==
    /\ pc \in {"par", "drain"}
    /\ tasks[i].st = "agent_done"
    /\ LET res == JudgeAndBuild(cases[i], tasks[i].a, metadata_checker,
                                overlap_ok, checker_verdict)
       IN  /\ judge_calls' = [judge_calls EXCEPT ![i] = IF res.judge_called THEN @ + 1 ELSE @]
           /\ tasks' = [tasks EXCEPT ![i] =
                          [@ EXCEPT !.st = IF res.raised THEN "failed" ELSE "done", !.r = res]]
    /\ UNCHANGED <<pc, inputs, cases, pool_size, run, store, passed_count, failed_count,
                   save_counter, error, summary, agent_calls, runner_result, eval_call, baseline, comparison, judge_call, lock, baseline_store, saves,
                   completed_saves, instances>>

\* boba.py 359-363: as_completed hands over the finished future of case i,
\* future.result() answers its result and the main thread takes the lock
MainLock(i) ==
    /\ pc = "par"
    /\ lock = 0
    /\ tasks[i].st = "done"
    /\ lock' = i
    /\ UNCHANGED <<pc, inputs, cases, pool_size, run, store, passed_count, failed_count,
                   save_counter, tasks, error, summary, agent_calls, judge_calls,
                   runner_result, eval_call, baseline, comparison, judge_call,
                   baseline_store, saves, completed_saves, instances>>

\* faulty variant: the result is folded without the lock being taken
FoldAllowed_Unlocked(i) == lock = 0 /\ tasks[i].st = "done"

\* boba.py 363: the fold of case i runs inside `with lock:`
FoldAllowed(i) == lock = i

\* boba.py 364-381: under the lock the result of case i is folded and every
\* SAVE_INTERVAL-th fold saved; leaving the block releases the lock
MainFold(i) ==
    /\ pc = "par"
    /\ FoldAllowed(i)
    /\ run' = FoldResult(run, tasks[i].r, passed_count, failed_count)
    /\ passed_count' = run'.passed
    /\ failed_count' = run'.failed
    /\ save_counter' = save_counter + 1
    /\ store' = IF PeriodicSaveDue(save_counter') THEN SaveRun(run') ELSE store
    /\ saves' = IF PeriodicSaveDue(save_counter') THEN saves + 1 ELSE saves
    /\ tasks' = [tasks EXCEPT ![i] = [@ EXCEPT !.st = "folded"]]
    /\ lock' = 0
    /\ UNCHANGED <<pc, inputs, cases, pool_size, error, summary, agent_calls, judge_calls,
                   runner_result, eval_call, baseline, comparison, judge_call,
                   baseline_store, completed_saves, instances>>

\* boba.py 360: future.result() re-raises the judge's exception of case i; the
\* with block then waits for the pool
MainRaise(i) ==
    /\ pc = "par"
    /\ lock = 0
    /\ tasks[i].st = "failed"
    /\ pc' = "drain"
    /\ error' = JudgeError
    /\ UNCHANGED <<inputs, cases, pool_size, run, store, passed_count, failed_count,
                   save_counter, tasks, summary, agent_calls, judge_calls, runner_result, eval_call, baseline, comparison, judge_call, lock, baseline_store, saves,
                   completed_saves, instances>>

\* boba.py 351: ThreadPoolExecutor.__exit__ returns once every submitted case
\* has run, and the exception leaves run()
PoolShutdown ==
    /\ pc = "drain"
    /\ \A i \in DOMAIN tasks : tasks[i].st \notin {"queued", "agent_done"}
    /\ pc' = "raised"
    /\ UNCHANGED <<inputs, cases, pool_size, run, store, passed_count, failed_count,
                   save_counter, tasks, error, summary, agent_calls, judge_calls,
                   runner_result, eval_call, baseline, comparison, judge_call, lock, baseline_store, saves,
                   completed_saves, instances>>

\* boba.py 383-384: the save after the pool has drained
PostPoolSave ==
    /\ pc = "par"
    /\ AllFolded
    /\ store' = SaveRun(run)
    /\ saves' = saves + 1
    /\ pc' = "finalize"
    /\ UNCHANGED <<inputs, cases, pool_size, run, passed_count, failed_count, save_counter,
                   tasks, error, summary, agent_calls, judge_calls, runner_result,
                   eval_call, baseline, comparison, judge_call, lock, baseline_store,
                   completed_saves, instances>>

\* faulty variant: the status is set and the score left out
FinalizedRecord_NoScore(r, p, n) ==
    [r EXCEPT !.status = "completed", !.completed_at = Some("now")]

\* boba.py 410-412: status, score and completion timestamp are set together
FinalizedRecord(r, p, n) ==
    [r EXCEPT !.status = "completed", !.score = Some(Score(p, n)),
              !.completed_at = Some("now")]

\* boba.py 409-414
Finalize ==
    /\ pc = "finalize"
    /\ run' = FinalizedRecord(run, passed_count, Len(cases))
    /\ store' = SaveRun(run')
    /\ saves' = saves + 1
    /\ completed_saves' = completed_saves + 1
    /\ pc' = "finalized"
    /\ UNCHANGED <<inputs, cases, pool_size, passed_count, failed_count, save_counter,
                   tasks, error, summary, agent_calls, judge_calls, runner_result,
                   eval_call, baseline, comparison, judge_call, lock, baseline_store,
                   instances>>

\* a baseline snapshot: the result map of an earlier run, as case id -> passed
BaselineOf(ids, passing) == Some([results |-> [k \in ids |-> [passed |-> k \in passing]]])

\* storage.get_baseline(dataset_id): none stored, or a snapshot; the ids "a",
\* "b", "c" are of the dataset, "z" is of a case since removed
BaselineChoices ==
    {None,
     BaselineOf({}, {}),
     BaselineOf({<<"a">>, <<"b">>, <<"z">>}, {<<"a">>, <<"z">>}),
     BaselineOf({<<"a">>, <<"b">>, <<"c">>}, {<<"b">>}),
     BaselineOf({<<"a">>, <<"b">>, <<"c">>}, {<<"a">>, <<"b">>, <<"c">>}),
     BaselineOf({<<"a">>, <<"b">>, <<"c">>}, {})}

NoComparison == [has_baseline |-> FALSE, regressions |-> {}, fixes |-> {}]

\* faulty variant: a missing baseline is taken as an empty one
CompareRunToBaseline_EmptyBaseline(r, bl) ==
    LET both == IF IsNone(bl) THEN {} ELSE DOMAIN r.results \cap DOMAIN Val(bl).results
    IN  [has_baseline |-> TRUE,
         regressions |-> {k \in both : Val(bl).results[k].passed /\ ~r.results[k].passed},
         fixes |-> {k \in both : ~Val(bl).results[k].passed /\ r.results[k].passed}]

\* faulty variant: an id the run lacks counts as failing in the run
CompareRunToBaseline_BaselineSide(r, bl) ==
    IF IsNone(bl) THEN NoComparison
    ELSE LET both == DOMAIN r.results \cap DOMAIN Val(bl).results
         IN  [has_baseline |-> TRUE,
              regressions |-> {k \in DOMAIN Val(bl).results :
                                 Val(bl).results[k].passed
                                 /\ (k \in both => ~r.results[k].passed)},
              fixes |-> {k \in both : ~Val(bl).results[k].passed /\ r.results[k].passed}]

\* storage.compare_run_to_baseline(run, baseline): the diff by case id
CompareRunToBaseline(r, bl) ==
    IF IsNone(bl) THEN NoComparison
    ELSE LET both == DOMAIN r.results \cap DOMAIN Val(bl).results
         IN  [has_baseline |-> TRUE,
              regressions |-> {k \in both : Val(bl).results[k].passed /\ ~r.results[k].passed},
              fixes |-> {k \in both : ~Val(bl).results[k].passed /\ r.results[k].passed}]

\* the operator's "save this run as baseline", made outside run(): the store
\* gets the snapshot bl for the dataset
SaveBaseline(bl) ==
    /\ pc = "idle"
    /\ IsNone(baseline_store)
    /\ ~IsNone(bl)
    /\ baseline_store' = bl
    /\ UNCHANGED <<pc, inputs, cases, pool_size, run, store, passed_count, failed_count,
                   save_counter, tasks, error, summary, agent_calls, judge_calls,
                   runner_result, eval_call, baseline, comparison, judge_call, lock,
                   saves, completed_saves, instances>>

\* faulty variant: a run without a baseline becomes the baseline
BaselineAfterRun_AutoSave(bl, r) ==
    IF IsNone(bl)
    THEN Some([results |-> [k \in DOMAIN r.results |-> [passed |-> r.results[k].passed]]])
    ELSE bl

\* boba.py 416-446: run() calls storage.get_baseline and
\* storage.compare_run_to_baseline and no other baseline operation, so the
\* stored baseline after the run is the one before it
BaselineAfterRun(bl, r) == bl

\* boba.py 416-446: the baseline is read, the run compared with it, and the
\* summary returned
Return ==
    /\ pc = "finalized"
    /\ baseline' = baseline_store
    /\ comparison' = Some(CompareRunToBaseline(run, baseline'))
    /\ baseline_store' = BaselineAfterRun(baseline_store, run)
    /\ summary' = Some([passed |-> passed_count, failed |-> failed_count,
                        total |-> Len(cases), score |-> Val(run.score),
                        regressions |-> Val(comparison').regressions,
                        fixes |-> Val(comparison').fixes])
    /\ pc' = "returned"
    /\ UNCHANGED <<inputs, cases, pool_size, run, store, passed_count, failed_count,
                   save_counter, tasks, error, agent_calls, judge_calls, runner_result,
                   eval_call, judge_call, lock, saves, completed_saves, instances>>

(* ------------------- run() when a store write fails -------------------- *)

StoreError == [kind |-> "store_exception", ids |-> <<>>]

\* faulty variant: the exception of the final save is swallowed
AfterFailedSave_FinalMasked(at) ==
    IF at = "periodic" THEN "drain" ELSE IF at = "final" THEN "finalized" ELSE "raised"

\* boba.py 335-414: no storage.save_run call of run() is inside a try, so its
\* exception leaves run(); the one raised inside the pool's with block (the
\* periodic save) first waits for the pool
AfterFailedSave(at) == IF at = "periodic" THEN "drain" ELSE "raised"

\* boba.py 282-336: the initial save raises, before the judge is fetched
RunStartSaveFails(ds, cids, envc, mw, envw, chk) ==
    /\ pc = "idle"
    /\ SelectCases(ds, cids, envc).error = NoError
    /\ dataset' = ds
    /\ case_ids' = cids
    /\ env_case_ids' = envc
    /\ max_workers' = mw
    /\ env_workers' = envw
    /\ metadata_checker' = chk
    /\ cases' = SelectCases(ds, cids, envc).cases
    /\ run' = NewRun(DatasetId, Len(cases'))
    /\ pc' = AfterFailedSave("initial")
    /\ error' = StoreError
    /\ UNCHANGED <<pool_size, store, passed_count, failed_count, save_counter, tasks,
                   summary, agent_calls, judge_calls, runner_result, eval_call,
                   baseline, comparison, judge_call, lock, baseline_store, saves,
                   completed_saves, instances>>

\* boba.py 389-402: case i is judged and folded, and the save after it raises
SeqSaveFails(i, overlap_ok, checker_verdict) ==
    /\ pc = "seq"
    /\ tasks[i].st = "agent_done"
    /\ LET res == JudgeAndBuild(cases[i], tasks[i].a, metadata_checker,
                                overlap_ok, checker_verdict)
       IN  /\ ~res.raised
           /\ judge_calls' = [judge_calls EXCEPT ![i] = IF res.judge_called THEN @ + 1 ELSE @]
           /\ run' = FoldResult(run, res, passed_count, failed_count)
           /\ tasks' = [tasks EXCEPT ![i] = [@ EXCEPT !.st = "folded", !.r = res]]
    /\ passed_count' = run'.passed
    /\ failed_count' = run'.failed
    /\ pc' = AfterFailedSave("seq")
    /\ error' = StoreError
    /\ UNCHANGED <<inputs, cases, pool_size, store, save_counter, summary, agent_calls,
                   runner_result, eval_call, baseline, comparison, judge_call, lock,
                   baseline_store, saves, completed_saves, instances>>

\* boba.py 364-381: the result of case i is folded and the periodic save that
\* is due raises; the lock is released and the with block waits for the pool
MainFoldSaveFails(i) ==
    /\ pc = "par"
    /\ FoldAllowed(i)
    /\ PeriodicSaveDue(save_counter + 1)
    /\ run' = FoldResult(run, tasks[i].r, passed_count, failed_count)
    /\ passed_count' = run'.passed
    /\ failed_count' = run'.failed
    /\ save_counter' = save_counter + 1
    /\ tasks' = [tasks EXCEPT ![i] = [@ EXCEPT !.st = "folded"]]
    /\ lock' = 0
    /\ pc' = AfterFailedSave("periodic")
    /\ error' = StoreError
    /\ UNCHANGED <<inputs, cases, pool_size, store, summary, agent_calls, judge_calls,
                   runner_result, eval_call, baseline, comparison, judge_call,
                   baseline_store, saves, completed_saves, instances>>

\* boba.py 383-384: the save after the pool raises
PostPoolSaveFails ==
    /\ pc = "par"
    /\ AllFolded
    /\ pc' = AfterFailedSave("post_pool")
    /\ error' = StoreError
    /\ UNCHANGED <<inputs, cases, pool_size, run, store, passed_count, failed_count,
                   save_counter, tasks, summary, agent_calls, judge_calls,
                   runner_result, eval_call, baseline, comparison, judge_call, lock,
                   baseline_store, saves, completed_saves, instances>>

\* boba.py 409-414: the record is finalized in memory and the final save raises
FinalizeSaveFails ==
    /\ pc = "finalize"
    /\ run' = FinalizedRecord(run, passed_count, Len(cases))
    /\ pc' = AfterFailedSave("final")
    /\ error' = StoreError
    /\ UNCHANGED <<inputs, cases, pool_size, store, passed_count, failed_count,
                   save_counter, tasks, summary, agent_calls, judge_calls,
                   runner_result, eval_call, baseline, comparison, judge_call, lock,
                   baseline_store, saves, completed_saves, instances>>

(* ------------------------- runner.run_eval ----------------------------- *)

\* what one case does in run_case: the eval function (or the judge) raises
\* with a message, or the eval function returns and the judge gives a verdict
RunnerOutcomes ==
    {[raised |-> FALSE, msg |-> "", verdict |-> TRUE],
     [raised |-> FALSE, msg |-> "", verdict |-> FALSE],
     [raised |-> TRUE, msg |-> "boom", verdict |-> FALSE],
     [raised |-> TRUE, msg |-> "", verdict |-> FALSE]}

\* runner.py 130-177
RunCase(o, has_judge) ==
    IF o.raised
    THEN [passed |-> FALSE, error_message |-> Some(o.msg)]
    ELSE [passed |-> IF has_judge THEN o.verdict ELSE FALSE, error_message |-> None]

\* runner.py 195-204: the counting loop
RECURSIVE RunEvalCount(_, _, _, _)
RunEvalCount(os, has_judge, p, f) ==
    IF Len(os) = 0 THEN [passed |-> p, failed |-> f]
    ELSE LET res == RunCase(os[1], has_judge)
         IN  IF ErrorTruthy(res.error_message)
             THEN RunEvalCount(Tail(os), has_judge, p, f + 1)
             ELSE IF res.passed
             THEN RunEvalCount(Tail(os), has_judge, p + 1, f)
             ELSE RunEvalCount(Tail(os), has_judge, p, f + 1)

\* runner.py 180-215
RunEvalResult(os, has_judge) ==
    LET c == RunEvalCount(os, has_judge, 0, 0)
    IN  [passed |-> c.passed, failed |-> c.failed, total |-> Len(os),
         score |-> Score(c.passed, Len(os))]

RunEval(os, has_judge) ==
    /\ pc = "idle"
    /\ runner_result' = Some(RunEvalResult(os, has_judge))
    /\ pc' = "runner_done"
    /\ UNCHANGED <<inputs, cases, pool_size, run, store, passed_count, failed_count,
                   save_counter, tasks, error, summary, agent_calls, judge_calls,
                   eval_call, baseline, comparison, judge_call, lock, baseline_store, saves,
                   completed_saves, instances>>

(* ------------------------------ eval() --------------------------------- *)

\* faulty variant: the record is filed under the id of the named dataset
ADHOC_DATASET_ID_Named == "ds-1"

\* boba.py 63
ADHOC_DATASET_ID == "_adhoc"

\* storage.generate_id() in eval()
EvalCaseId == <<"e">>

\* boba.py 65-157: judge the given output, gate it, save the completed run
Eval(output, overlap_ok, chk, checker_verdict) ==
    /\ pc = "idle"
    /\ LET j == JudgeFn(Some(output), overlap_ok)
           g == MetadataGate(chk, j.passed, checker_verdict)
           result == [case_id |-> EvalCaseId, passed |-> g.passed,
                      actual_output |-> Some(output), reasoning |-> j.reasoning,
                      actual_metadata |-> None, metadata_passed |-> g.metadata_passed]
       IN  /\ run' = [NewRun(ADHOC_DATASET_ID, 1) EXCEPT
                        !.results = PutResult(@, EvalCaseId, result),
                        !.status = "completed",
                        !.passed = IF g.passed THEN 1 ELSE 0,
                        !.failed = IF g.passed THEN 0 ELSE 1,
                        !.score = Some(IF g.passed THEN [num |-> 100, den |-> 1]
                                                   ELSE [num |-> 0, den |-> 1]),
                        !.completed_at = Some("now")]
           /\ store' = SaveRun(run')
           /\ saves' = saves + 1
           /\ completed_saves' = completed_saves + 1
           /\ instances' = [instances EXCEPT ![1] = GetJudge(@, TRUE)]
           /\ eval_call' = Some([output_passed |-> j.passed,
                                 metadata_passed |-> g.metadata_passed,
                                 passed |-> g.passed, reasoning |-> j.reasoning])
    /\ metadata_checker' = chk
    /\ pc' = "eval_done"
    /\ UNCHANGED <<dataset, case_ids, env_case_ids, max_workers, env_workers, cases,
                   pool_size, passed_count, failed_count, save_counter, tasks, error,
                   summary, agent_calls, judge_calls, runner_result, baseline, comparison,
                   judge_call, lock, baseline_store>>

(* ----------------------- the judges, called directly ------------------- *)

\* judge.py 59-89: the simple judge is called on two texts
SimpleJudgeCall(expected, actual) ==
    /\ pc = "idle"
    /\ judge_call' = Some([judge |-> "simple", expected |-> expected, actual |-> actual,
                           oracle |-> OracleFails(<<>>),
                           res |-> SimpleJudge(Some(actual), OverlapOk(expected, actual))])
    /\ pc' = "judged"
    /\ UNCHANGED <<inputs, cases, pool_size, run, store, passed_count, failed_count,
                   save_counter, tasks, error, summary, agent_calls, judge_calls,
                   runner_result, eval_call, baseline, comparison, lock, baseline_store, saves,
                   completed_saves, instances>>

\* judge.py 22-47: the oracle judge is called and the oracle does o
OracleJudgeCall(o) ==
    /\ pc = "idle"
    /\ judge_call' = Some([judge |-> "oracle", expected |-> <<>>, actual |-> <<>>,
                           oracle |-> o, res |-> OracleJudge(o)])
    /\ pc' = "judged"
    /\ UNCHANGED <<inputs, cases, pool_size, run, store, passed_count, failed_count,
                   save_counter, tasks, error, summary, agent_calls, judge_calls,
                   runner_result, eval_call, baseline, comparison, lock, baseline_store, saves,
                   completed_saves, instances>>

(* ---------------------------- the system ------------------------------- *)

Next ==
    \/ \E bl \in BaselineChoices : SaveBaseline(bl)
    \/ /\ pc = "idle"
       /\ \E in \in RunInputs :
             /\ IsNone(baseline_store) \/ in \in BaselineRunInputs
             /\ RunStart(in.ds, in.cids, in.envc, in.mw, in.envw, in.chk)
    \/ \E i \in DOMAIN tasks, o \in RunAgentOutcomes : SeqAgent(i, o)
    \/ \E i \in DOMAIN tasks, ov \in BOOLEAN, cv \in BOOLEAN : SeqJudgeFold(i, ov, cv)
    \/ \E i \in DOMAIN tasks, o \in RunAgentOutcomes : WorkerAgent(i, o)
    \/ \E i \in DOMAIN tasks, ov \in BOOLEAN, cv \in BOOLEAN : WorkerJudge(i, ov, cv)
    \/ \E i \in DOMAIN tasks : MainLock(i)
    \/ \E i \in DOMAIN tasks : MainFold(i)
    \/ \E i \in DOMAIN tasks : MainRaise(i)
    \/ PoolShutdown
    \/ PostPoolSave
    \/ Finalize
    \/ Return
    \/ /\ pc = "idle"
       /\ \E os \in BoundedSeq(RunnerOutcomes, MaxCases), hj \in BOOLEAN : RunEval(os, hj)
    \/ \E out \in {"hi", ""}, ov \in BOOLEAN, chk \in BOOLEAN, cv \in BOOLEAN :
          Eval(out, ov, chk, cv)

Spec == Init /\ [][Next]_vars

\* the parallel run over a dataset long enough for the periodic save
NextFlush ==
    \/ \E in \in FlushInputs : RunStart(in.ds, in.cids, in.envc, in.mw, in.envw, in.chk)
    \/ \E i \in DOMAIN tasks, o \in FlushAgentOutcomes : WorkerAgent(i, o)
    \/ \E i \in DOMAIN tasks, ov \in BOOLEAN, cv \in BOOLEAN : WorkerJudge(i, ov, cv)
    \/ \E i \in DOMAIN tasks : MainLock(i)
    \/ \E i \in DOMAIN tasks : MainFold(i)
    \/ \E i \in DOMAIN tasks : MainRaise(i)
    \/ PoolShutdown
    \/ PostPoolSave
    \/ Finalize
    \/ Return

SpecFlush == Init /\ [][NextFlush]_vars

\* the judge functions of judge.py, each called once on its inputs
NextJudge ==
    /\ pc = "idle"
    /\ \/ \E e \in ExpectedTexts, a \in ActualTexts : SimpleJudgeCall(e, a)
       \/ \E o \in OracleOutcomes : OracleJudgeCall(o)

SpecJudge == Init /\ [][NextJudge]_vars

\* run() over a dataset in which a case id repeats
NextRepeat ==
    \/ \E in \in RepeatInputs : RunStart(in.ds, in.cids, in.envc, in.mw, in.envw, in.chk)
    \/ \E i \in DOMAIN tasks, o \in RunAgentOutcomes : SeqAgent(i, o)
    \/ \E i \in DOMAIN tasks, ov \in BOOLEAN, cv \in BOOLEAN : SeqJudgeFold(i, ov, cv)
    \/ \E i \in DOMAIN tasks, o \in RunAgentOutcomes : WorkerAgent(i, o)
    \/ \E i \in DOMAIN tasks, ov \in BOOLEAN, cv \in BOOLEAN : WorkerJudge(i, ov, cv)
    \/ \E i \in DOMAIN tasks : MainLock(i)
    \/ \E i \in DOMAIN tasks : MainFold(i)
    \/ \E i \in DOMAIN tasks : MainRaise(i)
    \/ PoolShutdown
    \/ PostPoolSave
    \/ Finalize
    \/ Return

SpecRepeat == Init /\ [][NextRepeat]_vars

\* run() with every kind of agent answer
NextCase ==
    \/ \E in \in CaseInputs : RunStart(in.ds, in.cids, in.envc, in.mw, in.envw, in.chk)
    \/ \E i \in DOMAIN tasks, o \in CaseAgentOutcomes : SeqAgent(i, o)
    \/ \E i \in DOMAIN tasks, ov \in BOOLEAN, cv \in BOOLEAN : SeqJudgeFold(i, ov, cv)
    \/ \E i \in DOMAIN tasks, o \in CaseAgentOutcomes : WorkerAgent(i, o)
    \/ \E i \in DOMAIN tasks, ov \in BOOLEAN, cv \in BOOLEAN : WorkerJudge(i, ov, cv)
    \/ \E i \in DOMAIN tasks : MainLock(i)
    \/ \E i \in DOMAIN tasks : MainFold(i)
    \/ \E i \in DOMAIN tasks : MainRaise(i)
    \/ PoolShutdown
    \/ PostPoolSave
    \/ Finalize
    \/ Return

SpecCase == Init /\ [][NextCase]_vars

\* calls of _get_judge on the instances, with and without warn
NextWarn == \E b \in Instances, warn \in BOOLEAN : ResolveJudge(b, warn)

SpecWarn == Init /\ [][NextWarn]_vars

\* run() with a store whose writes may fail
NextStoreFail ==
    \/ \E in \in StoreFailInputs :
          \/ RunStart(in.ds, in.cids, in.envc, in.mw, in.envw, in.chk)
          \/ RunStartSaveFails(in.ds, in.cids, in.envc, in.mw, in.envw, in.chk)
    \/ \E i \in DOMAIN tasks, o \in FlushAgentOutcomes : SeqAgent(i, o)
    \/ \E i \in DOMAIN tasks, ov \in BOOLEAN, cv \in BOOLEAN : SeqJudgeFold(i, ov, cv)
    \/ \E i \in DOMAIN tasks, ov \in BOOLEAN, cv \in BOOLEAN : SeqSaveFails(i, ov, cv)
    \/ \E i \in DOMAIN tasks, o \in FlushAgentOutcomes : WorkerAgent(i, o)
    \/ \E i \in DOMAIN tasks, ov \in BOOLEAN, cv \in BOOLEAN : WorkerJudge(i, ov, cv)
    \/ \E i \in DOMAIN tasks : MainLock(i)
    \/ \E i \in DOMAIN tasks : MainFold(i)
    \/ \E i \in DOMAIN tasks : MainFoldSaveFails(i)
    \/ \E i \in DOMAIN tasks : MainRaise(i)
    \/ PoolShutdown
    \/ PostPoolSave
    \/ PostPoolSaveFails
    \/ Finalize
    \/ FinalizeSaveFails
    \/ Return

SpecStoreFail == Init /\ [][NextStoreFail]_vars

\* run() up to the choice of the mode, over the worker-count sweep
NextWorkers ==
    \E in \in WorkerSweepInputs : RunStart(in.ds, in.cids, in.envc, in.mw, in.envw, in.chk)

SpecWorkers == Init /\ [][NextWorkers]_vars

(* ============================ properties =============================== *)

\* run() has been called
RunCalled == pc \in {"seq", "par", "drain", "finalize", "finalized", "returned", "raised"}

\* run() has persisted the record with status=completed
RunCompleted == pc \in {"finalized", "returned"}

\* the run records of run(), in memory and in the store, with status=completed
CompletedRunRecords ==
    {r \in {run} \cup ToSet(store) : r.status = "completed" /\ r.dataset_id = DatasetId}

\* every record with status=completed, of run() or of eval()
CompletedRecords == {r \in {run} \cup ToSet(store) : r.status = "completed"}

\* the cases of ds whose id is in S, in the order of ds
CasesWithIds(ds, S) == SelectSeq(ds, LAMBDA c : c \in S)

\* the agent raised for the i-th selected case
AgentRaised(i) == tasks[i].st # "queued" /\ ~IsNone(tasks[i].a.error_message)

\* what the start of run() produced: the error it raised, or the selection
StartOutcome == [error |-> IF error = JudgeError THEN NoError ELSE error, cases |-> cases]

(* C1: once run() has persisted the record with status=completed, the result
   map, in memory and in the store, has exactly the selected case ids as its
   keys, each key holding the result of that case, in sequential and in
   parallel mode. *)
C1_OneResultPerCase ==
    /\ RunCompleted => ~IsNone(store) /\ Val(store) \in CompletedRunRecords
    /\ \A r \in CompletedRunRecords :
          /\ DOMAIN r.results = ToSet(cases)
          /\ Cardinality(DOMAIN r.results) = Len(cases)
          /\ \A k \in DOMAIN r.results : r.results[k].case_id = k

C1_Witness ==
    /\ pc = "returned"
    /\ pool_size >= 2
    /\ Len(cases) >= 3
    /\ Val(store).status = "completed"

(* C2: every completed run record, and the summary run() returns, has
   passed + failed = total. *)
C2_PassedPlusFailed ==
    /\ \A r \in CompletedRecords : r.passed + r.failed = r.total
    /\ ~IsNone(summary) => Val(summary).passed + Val(summary).failed = Val(summary).total
    /\ RunCompleted => Val(store).status = "completed"

C2_Witness ==
    /\ pc = "returned"
    /\ pool_size >= 2
    /\ Val(summary).passed >= 1
    /\ Val(summary).failed >= 1

\* score = passed / total * 100 as exact quotients, 0 when there is no case
ScoreMatches(passed, total, score) ==
    /\ score.den > 0
    /\ total > 0 => score.num * total = passed * 100 * score.den
    /\ total = 0 => score.num = 0

(* C3: the score of every completed run record, of the summary of run() and
   of the RunResult of run_eval is passed/total*100, and 0 when total is 0. *)
C3_Score ==
    /\ \A r \in CompletedRecords : ~IsNone(r.score) /\ ScoreMatches(r.passed, r.total, Val(r.score))
    /\ ~IsNone(summary) =>
          ScoreMatches(Val(summary).passed, Val(summary).total, Val(summary).score)
    /\ ~IsNone(runner_result) =>
          ScoreMatches(Val(runner_result).passed, Val(runner_result).total,
                       Val(runner_result).score)

C3_Witness ==
    /\ pc = "returned"
    /\ Val(summary).total = 3
    /\ Val(summary).passed = 1
    /\ Val(store).score = Some([num |-> 100, den |-> 3])

(* C4 (as claimed): whenever the agent raised for a case, _process_case
   returns a result with passed=false, actual_output=None and a non-empty
   error_message, and the judge was not invoked for that case. *)
C4_AgentErrorNeverJudged ==
    \A i \in DOMAIN tasks :
        (AgentRaised(i) /\ tasks[i].st \in {"done", "failed", "folded"}) =>
            /\ tasks[i].st # "failed"
            /\ tasks[i].r.passed = FALSE
            /\ tasks[i].r.actual_output = None
            /\ ErrorTruthy(tasks[i].r.error_message)
            /\ judge_calls[i] = 0

(* C5 (as claimed): an exception of the agent for one case never makes run()
   raise, and in the summary run() returns that case is recorded as failed. *)
C5_AgentErrorNeverAborts ==
    \A i \in DOMAIN tasks :
        AgentRaised(i) =>
            /\ pc \notin {"drain", "raised"}
            /\ pc = "returned" =>
                  /\ DOMAIN run.results = ToSet(cases)
                  /\ run.results[cases[i]].passed = FALSE
                  /\ Val(summary).failed >= 1

\* the gate of C6 on the locals output_passed, metadata_passed and passed
GateHolds(output_passed, metadata_passed, passed) ==
    IF metadata_checker
    THEN /\ ~IsNone(metadata_passed)
         /\ passed = (output_passed /\ Val(metadata_passed))
    ELSE /\ IsNone(metadata_passed)
         /\ passed = output_passed

(* C6: for every case whose agent call returned, and for eval(), the final
   passed is (judge verdict AND checker verdict) when a metadata_checker was
   given, and exactly the judge verdict when none was given. *)
C6_MetadataGating ==
    /\ \A i \in DOMAIN tasks :
          (tasks[i].st \in {"done", "folded"} /\ IsNone(tasks[i].a.error_message)) =>
              /\ ~IsNone(tasks[i].r.output_passed)
              /\ GateHolds(Val(tasks[i].r.output_passed), tasks[i].r.metadata_passed,
                           tasks[i].r.passed)
              /\ tasks[i].st = "folded" =>
                    run.results[cases[i]].passed = tasks[i].r.passed
    /\ ~IsNone(eval_call) =>
          GateHolds(Val(eval_call).output_passed, Val(eval_call).metadata_passed,
                    Val(eval_call).passed)

C6_Witness ==
    /\ pc = "returned"
    /\ metadata_checker
    /\ \E i \in DOMAIN tasks :
          /\ tasks[i].r.output_passed = Some(TRUE)
          /\ tasks[i].r.metadata_passed = Some(FALSE)
          /\ run.results[cases[i]].passed = FALSE

\* run() was given a non-empty case_ids list of ids of the dataset
KnownFilterGiven ==
    /\ RunCalled
    /\ ~IsNone(dataset)
    /\ ~IsNone(case_ids)
    /\ Len(Val(case_ids)) > 0
    /\ ToSet(Val(case_ids)) \subseteq ToSet(Val(dataset))

(* C7: given a non-empty case_ids list whose ids all exist in the dataset,
   run() selects exactly the cases with those ids, calls the agent for no
   other case, total is the number of selected cases, and the completed
   result map has exactly the requested ids as keys. *)
C7_CaseIdFiltering ==
    KnownFilterGiven =>
        LET wanted == ToSet(Val(case_ids))
        IN  /\ error.kind \notin {"dataset_not_found", "dataset_has_no_cases", "case_ids_not_found"}
            /\ cases = CasesWithIds(Val(dataset), wanted)
            /\ run.total = Cardinality(wanted)
            /\ \A i \in DOMAIN tasks : agent_calls[i] > 0 => cases[i] \in wanted
            /\ RunCompleted =>
                  /\ DOMAIN Val(store).results = wanted
                  /\ Val(store).total = Cardinality(wanted)
            /\ ~IsNone(summary) => Val(summary).total = Cardinality(wanted)

C7_Witness ==
    /\ pc = "returned"
    /\ pool_size = 2
    /\ dataset = Some(DatasetOf(3))
    /\ case_ids = Some(<< <<"c">>, <<"a">> >>)
    /\ DOMAIN Val(store).results = {<<"a">>, <<"c">>}
    /\ Val(summary).total = 2

\* the ids of case_ids that no case of the dataset has
NamedUnknown == {c \in ToSet(Val(case_ids)) : c \notin ToSet(Val(dataset))}

\* run() raised the ValueError naming exactly the unknown ids, each once,
\* with nothing saved and no case started
FailedFastNamingUnknown ==
    /\ pc = "raised"
    /\ error.kind = "case_ids_not_found"
    /\ ToSet(error.ids) = NamedUnknown
    /\ Len(error.ids) = Cardinality(NamedUnknown)
    /\ store = None
    /\ tasks = <<>>

(* C8 (as claimed): if case_ids names an id absent from the dataset, run()
   fails with an error that enumerates every unknown id, before any agent
   call and before any save. *)
C8_UnknownIdsEnumerated ==
    (RunCalled /\ ~IsNone(dataset) /\ ~IsNone(case_ids) /\ NamedUnknown # {}) =>
        FailedFastNamingUnknown

(* C8 (amended): if the dataset has at least one case and case_ids names an
   id absent from it, run() fails with an error that enumerates every unknown
   id, before any agent call and before any save. *)
C8_UnknownIdsEnumeratedNonEmptyDataset ==
    (RunCalled /\ ~IsNone(dataset) /\ Len(Val(dataset)) > 0
        /\ ~IsNone(case_ids) /\ NamedUnknown # {}) =>
        FailedFastNamingUnknown

C8_Witness ==
    /\ pc = "raised"
    /\ ~IsNone(dataset)
    /\ ~IsNone(case_ids)
    /\ Cardinality(NamedUnknown) = 2
    /\ Len(error.ids) = 2

(* C9 (as claimed): run() with case_ids=[] does what run() with case_ids=None
   does, also when BOBA_CASE_IDS is set: same error or same selected cases. *)
C9_EmptyListSameAsNone ==
    (RunCalled /\ case_ids = Some(<<>>)) =>
        StartOutcome = SelectCases(dataset, None, env_case_ids)

(* C9 (amended): run() with case_ids=[] ignores BOBA_CASE_IDS and selects
   every case of the dataset; that is what case_ids=None does whenever
   BOBA_CASE_IDS is unset, empty or names no id. *)
C9_EmptyListRunsAll ==
    (RunCalled /\ case_ids = Some(<<>>)) =>
        /\ StartOutcome = SelectCases(dataset, None, None)
        /\ (~IsNone(dataset) /\ Len(Val(dataset)) > 0) =>
              (error.kind # "case_ids_not_found" /\ cases = Val(dataset))
        /\ (~EnvTruthy(env_case_ids) \/ Len(ParseEnvCaseIds(Val(env_case_ids))) = 0) =>
              StartOutcome = SelectCases(dataset, None, env_case_ids)

C9_Witness ==
    /\ pc = "returned"
    /\ case_ids = Some(<<>>)
    /\ EnvTruthy(env_case_ids)
    /\ ToSet(ParseEnvCaseIds(Val(env_case_ids))) = {<<"a">>, <<"b">>}
    /\ Len(cases) = 3
    /\ Val(summary).total = 3

(* C10: a non-empty explicit case_ids alone decides the selection, whatever
   BOBA_CASE_IDS holds; BOBA_CASE_IDS is applied only when case_ids is not
   passed; with neither, every case of the dataset is selected. *)
C10_SelectionPrecedence ==
    (RunCalled /\ ~IsNone(dataset) /\ Len(Val(dataset)) > 0) =>
        LET ds == Val(dataset)
            envIds == IF EnvTruthy(env_case_ids)
                      THEN ToSet(ParseEnvCaseIds(Val(env_case_ids))) ELSE {}
        IN  /\ (~IsNone(case_ids) /\ Len(Val(case_ids)) > 0) =>
                  IF ToSet(Val(case_ids)) \subseteq ToSet(ds)
                  THEN cases = CasesWithIds(ds, ToSet(Val(case_ids)))
                  ELSE pc = "raised" /\ ToSet(error.ids) = ToSet(Val(case_ids)) \ ToSet(ds)
            /\ (pc # "raised" /\ ~IsNone(case_ids)) =>
                  cases = CasesWithIds(ds, IF Len(Val(case_ids)) > 0
                                           THEN ToSet(Val(case_ids)) ELSE ToSet(ds))
            /\ (IsNone(case_ids) /\ envIds # {}) =>
                  IF envIds \subseteq ToSet(ds)
                  THEN cases = CasesWithIds(ds, envIds)
                  ELSE pc = "raised" /\ ToSet(error.ids) = envIds \ ToSet(ds)
            /\ (IsNone(case_ids) /\ envIds = {}) =>
                  (cases = ds /\ error.kind # "case_ids_not_found")

C10_Witness ==
    /\ pc = "returned"
    /\ dataset = Some(DatasetOf(3))
    /\ case_ids = Some(<< <<"c">> >>)
    /\ EnvTruthy(env_case_ids)
    /\ ToSet(ParseEnvCaseIds(Val(env_case_ids))) = {<<"a">>, <<"b">>}
    /\ cases = << <<"c">> >>

\* run() got past selection and chose a mode
ModeChosen == RunCalled /\ StartOutcome.error = NoError

\* the mode run() chose is the parallel one
ParallelMode == pool_size > 0

(* C11: the worker count is the explicit max_workers when given, else the
   integer BOBA_MAX_WORKERS holds, else absent; run() is parallel exactly
   when that count exceeds 1, with a pool of that many threads, and is
   sequential when the count is absent, at most 1, or the environment text
   is not an integer. *)
C11_WorkerResolution ==
    ModeChosen =>
        /\ pc = "seq" => ~ParallelMode
        /\ pc \in {"par", "drain"} => ParallelMode
        /\ ~IsNone(max_workers) =>
              /\ ParallelMode <=> Val(max_workers) > 1
              /\ ParallelMode => pool_size = Val(max_workers)
        /\ IsNone(max_workers) /\ ~EnvTruthy(env_workers) => ~ParallelMode
        /\ IsNone(max_workers) /\ EnvTruthy(env_workers) =>
              LET n == ParseInt(Val(env_workers))
              IN  /\ IsNone(n) => ~ParallelMode
                  /\ ~IsNone(n) => /\ ParallelMode <=> Val(n) > 1
                                   /\ ParallelMode => pool_size = Val(n)

\* the explicit argument 1 beats the environment's " 2", and the run is
\* sequential
C11_Witness ==
    /\ pc = "seq"
    /\ max_workers = Some(1)
    /\ env_workers = Some(<<" ", "2">>)

\* with no argument the environment's " 2" gives a pool of two threads
C11_WitnessEnv ==
    /\ pc = "par"
    /\ IsNone(max_workers)
    /\ env_workers = Some(<<" ", "2">>)
    /\ pool_size = 2

\* the selected cases whose _process_case result is a pass
PassingCases == {i \in DOMAIN tasks : tasks[i].r.passed}

(* C12: the completed record and the summary are a function of the selected
   cases and of what agent and judge gave for each case alone: the counters
   are the numbers of passing and failing cases, the score follows from
   them, and each case id holds the verdict of its own case, whatever the
   pool size and whatever order the cases finished in, so a sequential and a
   parallel run over the same per-case behaviour agree. *)
C12_ModeIndependentOutcome ==
    RunCompleted =>
        LET p == Cardinality(PassingCases)
            n == Len(cases)
        IN  /\ run.passed = p /\ run.failed = n - p /\ run.total = n
            /\ run.score = Some(Score(p, n))
            /\ \A i \in DOMAIN tasks :
                  /\ cases[i] \in DOMAIN run.results
                  /\ run.results[cases[i]].passed = tasks[i].r.passed
                  /\ run.results[cases[i]] = StoredResult(tasks[i].r)
            /\ store = Some(run)
            /\ ~IsNone(summary) =>
                  /\ Val(summary).passed = p /\ Val(summary).failed = n - p
                  /\ Val(summary).total = n /\ Val(summary).score = Score(p, n)

\* a pool of three threads has run three cases, the middle one alone passing
C12_Witness ==
    /\ pc = "returned"
    /\ pool_size = 3
    /\ Len(cases) = 3
    /\ PassingCases = {2}
    /\ Val(summary).passed = 1

\* the sequential run over the same per-case behaviour
C12_WitnessSequential ==
    /\ pc = "returned"
    /\ pool_size = 0
    /\ Len(cases) = 3
    /\ PassingCases = {2}
    /\ Val(summary).passed = 1

\* the cases whose future has finished with a result
CompletedCases == {i \in DOMAIN tasks : tasks[i].st \in {"done", "folded"}}

\* the cases whose result the as_completed loop has folded into the record
FoldedCases == {i \in DOMAIN tasks : tasks[i].st = "folded"}

\* the case ids with a result in the persisted record
PersistedIds == IF IsNone(store) THEN {} ELSE DOMAIN Val(store).results

(* C13, as stated: in parallel mode, at any moment, with N the number of
   selected cases that have completed, the persisted record holds at least
   N - (N mod 5) results. *)
C13_CrashBoundCompleted ==
    ModeChosen /\ ParallelMode =>
        LET N == Cardinality(CompletedCases)
        IN  Cardinality(PersistedIds) >= N - (N % 5)

(* C13, amended: in parallel mode, at any moment, with N the number of
   results the as_completed loop has folded into the run record, the
   persisted record holds at least N - (N mod 5) results, all of them of
   folded cases; cases finished in the pool and not yet folded are not
   covered. *)
C13_CrashBoundFolded ==
    ModeChosen /\ ParallelMode =>
        LET N == Cardinality(FoldedCases)
        IN  /\ save_counter = N
            /\ Cardinality(PersistedIds) >= N - (N % 5)
            /\ PersistedIds \subseteq {cases[i] : i \in FoldedCases}

\* the fifth fold has saved the record while the pool is still open
C13_Witness ==
    /\ pc = "par"
    /\ save_counter = 5
    /\ Cardinality(PersistedIds) = 5
    /\ Val(store).status = "running"

(* C14: in sequential mode the cases are taken one at a time in dataset
   order, and whenever the agent has been invoked for the k-th selected case
   the persisted record holds exactly the results of the k-1 earlier cases,
   with passed and failed counting them. *)
C14_SequentialPersistsEachCase ==
    ModeChosen /\ ~ParallelMode =>
        \A k \in DOMAIN tasks :
            tasks[k].st = "agent_done" =>
                LET earlier == 1..(k - 1)
                    p == Cardinality(PassingCases \cap earlier)
                IN  /\ agent_calls[k] = 1
                    /\ \A j \in earlier : tasks[j].st = "folded"
                    /\ \A j \in DOMAIN tasks : j > k => tasks[j].st = "queued"
                    /\ ~IsNone(store)
                    /\ DOMAIN Val(store).results = {cases[j] : j \in earlier}
                    /\ \A j \in earlier :
                          Val(store).results[cases[j]] = StoredResult(tasks[j].r)
                    /\ Val(store).passed = p
                    /\ Val(store).failed = (k - 1) - p
                    /\ Val(store).status = "running"

\* the agent runs for the third case; the store holds one pass and one fail
C14_Witness ==
    /\ pc = "seq"
    /\ Len(cases) = 3
    /\ tasks[3].st = "agent_done"
    /\ Val(store).passed = 1
    /\ Val(store).failed = 1

\* the agent has not been invoked for any selected case
NoAgentCallYet == \A i \in DOMAIN agent_calls : agent_calls[i] = 0

(* C15: in both modes, once run() has selected its cases the store holds the
   run record, and until the agent is first invoked that record has
   status=running, total = number of selected cases, passed = failed = 0 and
   an empty result map; so the first agent call finds it persisted. *)
C15_InitialRecordPersisted ==
    ModeChosen =>
        /\ ~IsNone(store)
        /\ Val(store).total = Len(cases)
        /\ Val(store).dataset_id = DatasetId
        /\ NoAgentCallYet /\ Len(cases) > 0 =>
              /\ pc \in {"seq", "par"}
              /\ Val(store).status = "running"
              /\ Val(store).passed = 0
              /\ Val(store).failed = 0
              /\ DOMAIN Val(store).results = {}
              /\ IsNone(Val(store).score)

\* a parallel run of three cases has saved its record and no agent call has
\* been made
C15_Witness ==
    /\ pc = "par"
    /\ Len(cases) = 3
    /\ NoAgentCallYet
    /\ Val(store).total = 3
    /\ Val(store).status = "running"

(* C16: when a baseline is stored, the regressions run() returns are exactly
   the case ids present in both the baseline's and the run's result map that
   passed in the baseline and failed in the run, the fixes exactly those in
   both that failed in the baseline and passed in the run; an id present on
   one side only is in neither list. *)
C16_RegressionDiff ==
    pc = "returned" /\ ~IsNone(baseline) =>
        LET bl == Val(baseline).results
            cur == run.results
            both == DOMAIN bl \cap DOMAIN cur
            s == Val(summary)
        IN  /\ Val(comparison).has_baseline
            /\ \A k \in DOMAIN bl \cup DOMAIN cur :
                  /\ k \in s.regressions <=>
                        k \in both /\ bl[k].passed /\ ~cur[k].passed
                  /\ k \in s.fixes <=>
                        k \in both /\ ~bl[k].passed /\ cur[k].passed
            /\ s.regressions \cup s.fixes \subseteq both
            /\ s.regressions \cap s.fixes = {}

\* "a" regressed, "b" was fixed, "c" is new in the run and the baseline's
\* passing "z" is gone from the dataset
C16_Witness ==
    /\ pc = "returned"
    /\ baseline = BaselineOf({<<"a">>, <<"b">>, <<"z">>}, {<<"a">>, <<"z">>})
    /\ Len(cases) = 3
    /\ ~run.results[<<"c">>].passed
    /\ Val(summary).regressions = {<<"a">>}
    /\ Val(summary).fixes = {<<"b">>}

(* C17: when no baseline is stored, the comparison has has_baseline = false
   and empty regressions and fixes, and run() returns the summary with
   passed, failed, total and score of the run and both lists empty. *)
C17_NoBaseline ==
    pc = "returned" /\ IsNone(baseline) =>
        /\ comparison = Some([has_baseline |-> FALSE, regressions |-> {}, fixes |-> {}])
        /\ ~IsNone(summary)
        /\ Val(summary).regressions = {} /\ Val(summary).fixes = {}
        /\ Val(summary).passed = run.passed /\ Val(summary).failed = run.failed
        /\ Val(summary).total = Len(cases) /\ Some(Val(summary).score) = run.score
        /\ Val(store).status = "completed"

\* a run with a pass and a fail returns with no baseline stored
C17_Witness ==
    /\ pc = "returned"
    /\ IsNone(baseline)
    /\ Val(summary).passed >= 1
    /\ Val(summary).failed >= 1
    /\ ~Val(comparison).has_baseline

\* the simple judge, respectively the oracle judge, has been called
SimpleJudged == ~IsNone(judge_call) /\ Val(judge_call).judge = "simple"

OracleJudged == ~IsNone(judge_call) /\ Val(judge_call).judge = "oracle"

(* C18: the heuristic judge passes exactly when the expected outcome has no
   word besides stop words, or the expected non-stop words found in the actual
   output are at least 30% of them (10*|overlap| >= 3*|expected|); so a
   stop-word-only expectation passes and no overlap with a non-trivial
   expectation fails. *)
C18_HeuristicJudge ==
    SimpleJudged =>
        LET c == Val(judge_call)
            E == {w \in Words(c.expected) : w \notin StopWords}
            O == {w \in E : \E i \in DOMAIN c.actual : Lower(c.actual[i]) = w}
        IN  /\ ~c.res.raised
            /\ c.res.passed <=> (E = {} \/ 10 * Cardinality(O) >= 3 * Cardinality(E))
            /\ E = {} => c.res.passed
            /\ E # {} /\ O = {} => ~c.res.passed

\* one of three expected words is found, in another case: a pass
C18_Witness ==
    /\ SimpleJudged
    /\ Val(judge_call).expected = <<"The", "cat", "dog", "fish">>
    /\ Val(judge_call).actual = <<"Cat">>
    /\ Val(judge_call).res.passed

\* one of four expected words is found: a fail
C18_WitnessBelow ==
    /\ SimpleJudged
    /\ Val(judge_call).expected = <<"cat", "dog", "fish", "bird">>
    /\ Val(judge_call).actual = <<"bird">>
    /\ ~Val(judge_call).res.passed

(* C19: whenever obtaining or parsing the oracle's response fails, the oracle
   judge does not raise and returns passed = False with a reasoning that
   carries the text of the failure, whatever that text is. *)
C19_OracleFailureIsFalse ==
    OracleJudged /\ Val(judge_call).oracle.kind = "raises" =>
        /\ ~Val(judge_call).res.raised
        /\ Val(judge_call).res.detail = Val(judge_call).oracle.text
        /\ Val(judge_call).res.passed = FALSE

\* the judge raised for some selected case
JudgeRaised == \E i \in DOMAIN tasks : tasks[i].st = "failed"

(* C20: once the judge has raised for a case, run() never returns a summary
   and the record is never persisted with status=completed: it stays
   status=running in memory and in the store, the store holding only results
   folded and saved before the failure; sequential mode leaves run() with the
   exception at once, parallel mode when the loop reaches that future, and
   run() ends with an exception of the judge only if the judge raised. *)
C20_JudgeExceptionAborts ==
    ModeChosen =>
        /\ JudgeRaised =>
              /\ pc \in {"par", "drain", "raised"}
              /\ IsNone(summary)
              /\ run.status = "running"
              /\ Val(store).status = "running"
              /\ IsNone(Val(store).score)
              /\ PersistedIds \subseteq {cases[i] : i \in FoldedCases}
              /\ \A i \in FoldedCases :
                    cases[i] \in PersistedIds =>
                        Val(store).results[cases[i]] = StoredResult(tasks[i].r)
              /\ ~ParallelMode => pc = "raised" /\ error = JudgeError
              /\ pc \in {"drain", "raised"} => error = JudgeError
        /\ error = JudgeError => JudgeRaised /\ pc \in {"drain", "raised"}

\* sequential: the judge raised for the third case; the store keeps the two
\* earlier results under status=running
C20_Witness ==
    /\ pc = "raised"
    /\ error = JudgeError
    /\ ~ParallelMode
    /\ Len(cases) = 3
    /\ tasks[3].st = "failed"
    /\ Cardinality(PersistedIds) = 2
    /\ Val(store).status = "running"

\* parallel: the exception left run() after the pool drained, two results
\* folded in memory and none of them saved
C20_WitnessParallel ==
    /\ pc = "raised"
    /\ error = JudgeError
    /\ ParallelMode
    /\ Cardinality(FoldedCases) = 2
    /\ PersistedIds = {}

(* C22: eval() persists exactly one run record, under the dataset id
   "_adhoc"; the record has status=completed, total = 1, passed + failed = 1,
   exactly one result, and score 100 if the case passed and 0 otherwise; no
   record of eval() is persisted with status=running. *)
C22_EvalRecord ==
    pc = "eval_done" =>
        /\ saves = 1
        /\ completed_saves = 1
        /\ ~IsNone(store)
        /\ Val(store).dataset_id = "_adhoc"
        /\ Val(store).status = "completed"
        /\ ~IsNone(Val(store).completed_at)
        /\ Val(store).total = 1
        /\ Val(store).passed + Val(store).failed = 1
        /\ Cardinality(DOMAIN Val(store).results) = 1
        /\ \A k \in DOMAIN Val(store).results :
              /\ Val(store).results[k].passed <=> Val(store).passed = 1
              /\ Val(store).results[k].passed = Val(eval_call).passed
        /\ Val(store).score =
              Some(IF Val(eval_call).passed THEN [num |-> 100, den |-> 1]
                                           ELSE [num |-> 0, den |-> 1])

\* eval() with a checker that rejects what the judge accepted: a failed
\* record with score 0
C22_Witness ==
    /\ pc = "eval_done"
    /\ Val(eval_call).output_passed
    /\ ~Val(eval_call).passed
    /\ Val(store).failed = 1
    /\ Val(store).score = Some([num |-> 0, den |-> 1])

\* the lock is held only by the main thread between taking a finished
\* result and having folded it
LockHeldOnlyToFold ==
    lock # 0 => pc = "par" /\ lock \in DOMAIN tasks /\ tasks[lock].st = "done"

\* a step in which the agent or the judge is called
CallStep == agent_calls' # agent_calls \/ judge_calls' # judge_calls

\* a step of parallel mode that changes the result map or a counter
FoldStep ==
    /\ ModeChosen /\ ParallelMode
    /\ \/ run'.results # run.results
       \/ run'.passed # run.passed \/ run'.failed # run.failed
       \/ passed_count' # passed_count \/ failed_count' # failed_count

\* a step of parallel mode in which storage.save_run is called
SaveStep == ModeChosen /\ ParallelMode /\ saves' # saves

\* folds happen with the lock held and release it; saves happen with the lock
\* held or after every case was folded, so always in the main thread and one
\* after the other
LockedFoldsAndSaves ==
    /\ FoldStep => lock # 0 /\ lock' = 0 /\ tasks[lock].st = "done"
                   /\ tasks'[lock].st = "folded"
    /\ SaveStep => lock # 0 \/ AllFolded

(* C25, as stated: in parallel mode the lock is held only while one completed
   result is folded and possibly saved, every change of the result map and of
   the counters is made with the lock held, store writes never overlap, and
   no agent call and no judge call executes while the lock is held. *)
C25_NoCallWhileLockHeld ==
    /\ []LockHeldOnlyToFold
    /\ [][/\ LockedFoldsAndSaves
          /\ lock # 0 => ~CallStep]_vars

(* C25, amended: as above, but for the calls: no agent call and no judge call
   is made inside the critical section, that is, a step that calls the agent
   or the judge neither takes nor releases the lock and touches neither the
   run record nor the store; pool threads never take the lock, so their calls
   can run while the main thread holds it. *)
C25_LockDiscipline ==
    /\ []LockHeldOnlyToFold
    /\ [][/\ LockedFoldsAndSaves
          /\ CallStep /\ ModeChosen /\ ParallelMode =>
                lock' = lock /\ run' = run /\ store' = store /\ saves' = saves]_vars

\* the main thread holds the lock for the first case while a pool thread is
\* between the agent call and the judge call of the third
C25_Witness ==
    /\ pc = "par"
    /\ lock = 1
    /\ Len(cases) = 3
    /\ tasks[3].st = "agent_done"
    /\ tasks[2].st = "folded"

(* C27: no step of run() changes the stored baseline, whether the run
   returns or raises, so the baseline (or its absence) after run() is the one
   before it; run() reads the baseline once, after the record was persisted
   with status=completed, and compares the run with what it read. *)
C27_BaselineUntouched ==
    /\ [](~IsNone(comparison) =>
            pc = "returned" /\ baseline = baseline_store
            /\ Val(store).status = "completed")
    /\ [][/\ pc' # "idle" => baseline_store' = baseline_store
          /\ (comparison' # comparison \/ baseline' # baseline) =>
                /\ pc = "finalized" /\ IsNone(comparison)
                /\ Val(store).status = "completed"
                /\ baseline' = baseline_store]_vars

\* a parallel run against a stored baseline has returned regressions and the
\* store still holds that baseline
C27_Witness ==
    /\ pc = "returned"
    /\ pool_size = 2
    /\ baseline_store = BaselineOf({<<"a">>, <<"b">>, <<"c">>}, {<<"a">>, <<"b">>, <<"c">>})
    /\ Cardinality(Val(summary).regressions) = 2

\* run() raised with a baseline in the store
C27_WitnessRaised ==
    /\ pc = "raised"
    /\ error = JudgeError
    /\ ~IsNone(baseline_store)

(* C21: when a store write of run() fails (the initial save, the save after a
   case, the periodic save, the save after the pool or the final save) run()
   ends with that exception: it never returns a summary, it reads no
   baseline, and no record with status=completed is in the store; a summary
   is returned only when every write succeeded and the store holds the
   record as it is in memory. *)
C21_StoreFailurePropagates ==
    /\ error = StoreError =>
          /\ pc \in {"drain", "raised"}
          /\ IsNone(summary)
          /\ IsNone(comparison)
          /\ completed_saves = 0
          /\ \A r \in ToSet(store) : r.status = "running"
    /\ pc = "returned" => error = NoError /\ store = Some(run) /\ completed_saves = 1

\* the final save failed: the record is completed in memory only
C21_Witness ==
    /\ pc = "raised"
    /\ error = StoreError
    /\ run.status = "completed"
    /\ Val(store).status = "running"
    /\ pool_size = 2

\* the periodic save failed and run() left after the pool drained
C21_WitnessPeriodic ==
    /\ pc = "raised"
    /\ error = StoreError
    /\ save_counter = 5
    /\ PersistedIds = {}
    /\ run.status = "running"

(* C23: in every state of a run, in memory and in the store, passed + failed
   equals the number of entries of the result map: a result recorded for a
   case id that already has one overwrites the entry and is counted once. *)
C23_CountersMatchResultMap ==
    /\ ModeChosen =>
          run.passed + run.failed = Cardinality(DOMAIN run.results)
    /\ \A r \in ToSet(store) :
          r.passed + r.failed = Cardinality(DOMAIN r.results)

\* the store holds a record with status=completed
PersistedCompleted == \E r \in ToSet(store) : r.status = "completed"

\* the persisted status is completed only once every selected case is folded,
\* and then the record carries its score and completion timestamp
CompletedOnlyWhenAllFolded ==
    ModeChosen =>
        /\ completed_saves <= 1
        /\ run.status = "completed" => PersistedCompleted
        /\ PersistedCompleted =>
              /\ RunCompleted
              /\ AllFolded
              /\ completed_saves = 1
              /\ store = Some(run)
              /\ DOMAIN run.results = {cases[i] : i \in DOMAIN cases}
              /\ ~IsNone(run.score)
              /\ ~IsNone(run.completed_at)

\* after the completed record is persisted nothing writes the record or the store
FrozenAfterCompleted ==
    ModeChosen /\ PersistedCompleted =>
        /\ run' = run
        /\ store' = store
        /\ saves' = saves
        /\ completed_saves' = completed_saves
        /\ passed_count' = passed_count
        /\ failed_count' = failed_count

(* C24: within one run() the persisted status only moves from running to
   completed: the record is persisted with status=completed exactly once,
   only after every selected case has been folded into the result map,
   together with score and completion timestamp, and after that persist the
   record (results, counters, score, status) is neither mutated nor
   persisted again. *)
C24_CompletedOnceThenFrozen ==
    /\ []CompletedOnlyWhenAllFolded
    /\ [][FrozenAfterCompleted]_vars

\* a parallel run has returned: several saves, one of them the completed one
C24_Witness ==
    /\ pc = "returned"
    /\ pool_size = 2
    /\ Len(cases) = 3
    /\ saves >= 3
    /\ completed_saves = 1
    /\ PersistedCompleted
    /\ store = Some(run)

\* the selected cases whose agent call raised
AgentRaisedCases == {i \in DOMAIN tasks : ~IsNone(tasks[i].a.error_message)}

\* the agent is invoked only for a selected case not yet attempted
AgentCalledOnFreshCase ==
    \A i \in DOMAIN agent_calls :
        agent_calls'[i] # agent_calls[i] =>
            /\ agent_calls[i] = 0
            /\ agent_calls'[i] = 1
            /\ i \notin AgentRaisedCases
            /\ cases[i] \in ToSet(Val(dataset)) \cap ToSet(SelectCases(dataset, case_ids, env_case_ids).cases)

\* one attempt at most for each selected case, one exactly when run() completed
AtMostOneAttempt ==
    ModeChosen =>
        /\ cases = SelectCases(dataset, case_ids, env_case_ids).cases
        /\ DOMAIN agent_calls = DOMAIN cases
        /\ \A i \in DOMAIN agent_calls : agent_calls[i] <= 1
        /\ \A i \in AgentRaisedCases : agent_calls[i] = 1
        /\ RunCompleted => \A i \in DOMAIN agent_calls : agent_calls[i] = 1

(* C26: within one run(), sequential or parallel, the agent is invoked at
   most once for each selected case and exactly once for each when the run
   completes; a case whose agent call raised is not invoked again; the agent
   is never invoked for a case of the dataset outside the selection. *)
C26_AgentAtMostOnce ==
    /\ []AtMostOneAttempt
    /\ [][ModeChosen => AgentCalledOnFreshCase]_vars

\* a parallel run over two cases selected out of three completed after the
\* agent raised for one of them
C26_Witness ==
    /\ pc = "returned"
    /\ pool_size = 2
    /\ Len(Val(dataset)) = 3
    /\ Len(cases) = 2
    /\ AgentRaisedCases # {}
    /\ \A i \in DOMAIN agent_calls : agent_calls[i] = 1

\* the results run() has recorded, in memory and in the store
RecordedResults ==
    {run.results[k] : k \in DOMAIN run.results}
        \cup UNION {{r.results[k] : k \in DOMAIN r.results} : r \in ToSet(store)}

(* C28, as stated: a recorded result has a boolean metadata_passed whenever a
   metadata checker was supplied to run(), cases whose agent call raised
   included, and None exactly when no checker was supplied. *)
C28_MetadataPassedTriState ==
    ModeChosen =>
        \A r \in RecordedResults : IsNone(r.metadata_passed) <=> ~metadata_checker

(* C28, amended: a recorded result has a boolean metadata_passed exactly when
   a metadata checker was supplied to run() and the case was judged; it is
   None when no checker was supplied and for every case recorded as an agent
   error, whether or not a checker was supplied. *)
C28_MetadataPassedWhenChecked ==
    ModeChosen =>
        \A r \in RecordedResults :
            /\ ~IsNone(r.metadata_passed) <=> metadata_checker /\ ~ErrorTruthy(r.error_message)
            /\ ~IsNone(r.metadata_passed) => Val(r.metadata_passed) \in BOOLEAN

\* a completed run with a checker holds a judged case with a verdict of the
\* checker and a case recorded as an agent error without one
C28_Witness ==
    /\ pc = "returned"
    /\ metadata_checker
    /\ \E r \in RecordedResults : ErrorTruthy(r.error_message) /\ IsNone(r.metadata_passed)
    /\ \E r \in RecordedResults : r.metadata_passed = Some(FALSE)
    /\ \E r \in RecordedResults : r.metadata_passed = Some(TRUE)

\* the selected cases for which _process_case has built a result
BuiltCases == {i \in DOMAIN tasks : tasks[i].st \in {"done", "folded"}}

(* C29: in every result _process_case builds, actual_output is None only if
   the agent raised and error_message is set exactly if the agent raised;
   when the agent returned normally, whatever the text and with or without
   metadata, the result carries the returned text as actual_output and
   error_message None, and the recorded result is that result. *)
C29_OutputAndErrorFields ==
    ModeChosen =>
        \A i \in BuiltCases :
            LET agent_raised == IsNone(tasks[i].a.output)
                r == tasks[i].r
            IN  /\ IsNone(r.actual_output) => agent_raised
                /\ ~IsNone(r.error_message) <=> agent_raised
                /\ ~agent_raised =>
                      /\ r.actual_output = tasks[i].a.output
                      /\ IsNone(r.error_message)
                /\ tasks[i].st = "folded" => run.results[cases[i]] = StoredResult(r)

\* on each instance the warning was printed once if a fallback with warn=True
\* was made and never otherwise, and every fallback answered the simple judge
WarnedOnce ==
    \A b \in Instances :
        /\ instances[b].warnings = IF instances[b].warn_resolutions > 0 THEN 1 ELSE 0
        /\ instances[b].warned_simple_judge <=> instances[b].warn_resolutions > 0
        /\ instances[b].resolutions > 0 => instances[b].judge = "simple"

\* one call of _get_judge: it touches one instance; with warn=False it prints
\* nothing and leaves the flag; with warn=True it prints unless the flag is set
WarnStep ==
    \A b \in Instances :
        instances'[b] # instances[b] =>
            /\ \A o \in Instances \ {b} : instances'[o] = instances[o]
            /\ instances'[b].resolutions = instances[b].resolutions + 1
            /\ instances'[b].judge = "simple"
            /\ IF instances'[b].warn_resolutions = instances[b].warn_resolutions
               THEN /\ instances'[b].warnings = instances[b].warnings
                    /\ instances'[b].warned_simple_judge = instances[b].warned_simple_judge
               ELSE /\ instances'[b].warnings =
                          instances[b].warnings + (IF instances[b].warned_simple_judge THEN 0 ELSE 1)
                    /\ instances'[b].warned_simple_judge

(* C30: over any sequence of calls of _get_judge on one Boba instance that
   fall back to the simple judge, the warning is printed at most once, on the
   first fallback made with warn=True; a fallback with warn=False prints
   nothing and leaves the flag unset; every fallback answers the simple
   judge; another instance's flag is not touched. *)
C30_WarnOnce ==
    /\ []WarnedOnce
    /\ [][WarnStep]_vars

\* one instance fell back with and without warn several times and warned
\* once; the other fell back only with warn=False and has not warned
C30_Witness ==
    /\ instances[1].resolutions = MaxResolutions
    /\ instances[1].warn_resolutions >= 2
    /\ instances[1].warn_resolutions < instances[1].resolutions
    /\ instances[1].warnings = 1
    /\ instances[2].resolutions >= 2
    /\ instances[2].warn_resolutions = 0
    /\ ~instances[2].warned_simple_judge
    /\ instances[2].judge = "simple"

====
